---- MODULE Spec2Model ----
(***************************************************************************)
(* LMStudio-Code: token ledger (TokenCounter), conversation ledger         *)
(* (ContextManager) and prompt assembler (PromptBuilder).                  *)
(*                                                                         *)
(* A text is a sequence of one-character strings, so that length,          *)
(* substring, concatenation, trim and includes are computed as the         *)
(* JavaScript code computes them.                                          *)
(***************************************************************************)
EXTENDS Integers, Sequences, FiniteSets, TLC

(* ------------------------------------------------------------------ *)
(* Bounds of the model                                                   *)
(* ------------------------------------------------------------------ *)

\* largest availableTokens value handed to allocateTokenBudget in SpecTok
MaxAvailable == 200

\* largest maxTokens value handed to truncateToTokenLimit in SpecTok
MaxLimit == 3

\* number of messages the session may append to the ledger
MaxMessages == 4

\* largest configured recentMessagesCount (keepRecentCount)
MaxKeep == 2

(* ------------------------------------------------------------------ *)
(* Text primitives                                                       *)
(* ------------------------------------------------------------------ *)

Min(a, b) == IF a < b THEN a ELSE b

Max(a, b) == IF a > b THEN a ELSE b

\* n copies of the character c
Rep(c, n) == [i \in 1..n |-> c]

\* String.prototype.substring(0, n): negative n counts as 0, n is capped at length
Substring0(s, n) == SubSeq(s, 1, Min(Max(n, 0), Len(s)))

\* String.prototype.includes
Includes(s, pat) ==
  \E i \in 0..(Len(s) - Len(pat)) : SubSeq(s, i + 1, i + Len(pat)) = pat

WhiteSpace == {" ", "\n", "\t", "\r"}

RECURSIVE TrimStart(_)
TrimStart(s) ==
  IF s # <<>> /\ Head(s) \in WhiteSpace THEN TrimStart(Tail(s)) ELSE s

RECURSIVE TrimEnd(_)
TrimEnd(s) ==
  IF s # <<>> /\ s[Len(s)] \in WhiteSpace THEN TrimEnd(SubSeq(s, 1, Len(s) - 1)) ELSE s

\* String.prototype.trim
Trim(s) == TrimEnd(TrimStart(s))

\* t is a prefix of s
IsPrefix(t, s) == Len(t) <= Len(s) /\ SubSeq(s, 1, Len(t)) = t

(* ------------------------------------------------------------------ *)
(* TokenCounter                                                          *)
(* ------------------------------------------------------------------ *)

\* Math.ceil(text.length / 3.5)
estimateTokens(text) ==
  IF text = <<>> THEN 0 ELSE (2 * Len(text) + 6) \div 7

\* Characters the encoder turns into one token each; every other character
\* shares a token with up to three neighbours of its kind.
DenseChars == {"#"}

\* Length of this.encoding.encode(text): the tiktoken encoder, kept only as
\* a count in which symbol-heavy text costs more tokens per character than prose.
encodeLength(text) ==
  LET dense == Cardinality({i \in 1..Len(text) : text[i] \in DenseChars})
      light == Len(text) - dense
  IN dense + (light + 3) \div 4

\* countTokens(text); enc is TRUE when the constructor loaded the encoder
countTokens(text, enc) ==
  IF text = <<>> THEN 0
  ELSE IF enc THEN encodeLength(text)
  ELSE estimateTokens(text)

\* calculateAvailableTokens(maxTokens, reservedForResponse)
calculateAvailableTokens(maxTokens, reservedForResponse) ==
  Max(0, maxTokens - reservedForResponse)

\* availableTokens values at which the double product availableTokens * 0.35
\* rounds just below the exact integer, so that Math.floor loses one
Float35Low == {180, 340, 360, 660, 680, 700, 720, 1300, 1320, 1340, 1360, 1380,
               1400, 1420, 1440, 1460}

\* Math.floor(availableTokens * pct/100) in IEEE double arithmetic
FloorPct(availableTokens, pct) ==
  LET exact == (availableTokens * pct) \div 100
  IN IF pct = 35 /\ availableTokens \in Float35Low THEN exact - 1 ELSE exact

\* Math.ceil(availableTokens * pct/100)
CeilPct(availableTokens, pct) == (availableTokens * pct + 99) \div 100

\* allocateTokenBudget rounding every share up instead of down
allocateTokenBudgetCeil(availableTokens) ==
  [ systemPrompt      |-> CeilPct(availableTokens, 5),
    taskList          |-> CeilPct(availableTokens, 5),
    compressedHistory |-> CeilPct(availableTokens, 20),
    recentHistory     |-> CeilPct(availableTokens, 30),
    fileContents      |-> CeilPct(availableTokens, 35),
    userQuery         |-> CeilPct(availableTokens, 5) ]

\* allocateTokenBudget(availableTokens)
allocateTokenBudget(availableTokens) ==
  [ systemPrompt      |-> FloorPct(availableTokens, 5),
    taskList          |-> FloorPct(availableTokens, 5),
    compressedHistory |-> FloorPct(availableTokens, 20),
    recentHistory     |-> FloorPct(availableTokens, 30),
    fileContents      |-> FloorPct(availableTokens, 35),
    userQuery         |-> FloorPct(availableTokens, 5) ]

BudgetSum(b) ==
  b.systemPrompt + b.taskList + b.compressedHistory + b.recentHistory
    + b.fileContents + b.userQuery

\* '\n... [truncated]'
TruncationMarker ==
  <<"\n", ".", ".", ".", " ", "[", "t", "r", "u", "n", "c", "a", "t", "e", "d", "]">>

\* Math.floor(text.length * (maxTokens / currentTokens) * 0.95).  The double
\* product can round just below an exact integer quotient, and Math.floor then
\* loses one: ulp (0 or 1) is that loss, possible only when the quotient is exact.
estimatedChars(len, maxTokens, currentTokens, ulp) ==
  LET num   == len * maxTokens * 19
      den   == currentTokens * 20
      exact == num \div den
  IN IF num % den = 0 /\ exact > 0 THEN exact - ulp ELSE exact

\* while (countTokens(truncated) > maxTokens && truncated.length > 0)
\*   truncated = truncated.substring(0, truncated.length - 100)
RECURSIVE shrink(_, _, _)
shrink(truncated, maxTokens, enc) ==
  IF countTokens(truncated, enc) > maxTokens /\ Len(truncated) > 0
  THEN shrink(Substring0(truncated, Len(truncated) - 100), maxTokens, enc)
  ELSE truncated

\* truncateToTokenLimit(text, maxTokens)
truncateToTokenLimit(text, maxTokens, enc, ulp) ==
  IF text = <<>> THEN <<>>
  ELSE LET currentTokens == countTokens(text, enc)
       IN IF currentTokens <= maxTokens THEN text
          ELSE shrink(Substring0(text,
                        estimatedChars(Len(text), maxTokens, currentTokens, ulp)),
                      maxTokens, enc) \o TruncationMarker

(* ------------------------------------------------------------------ *)
(* ContextManager: the conversation ledger                               *)
(* ------------------------------------------------------------------ *)

\* message.role as text
RoleText(role) ==
  CASE role = "system"    -> <<"s", "y", "s", "t", "e", "m">>
    [] role = "user"      -> <<"u", "s", "e", "r">>
    [] role = "assistant" -> <<"a", "s", "s", "i", "s", "t", "a", "n", "t">>

\* m.role.toUpperCase()
RoleUpper(role) ==
  CASE role = "system"    -> <<"S", "Y", "S", "T", "E", "M">>
    [] role = "user"      -> <<"U", "S", "E", "R">>
    [] role = "assistant" -> <<"A", "S", "S", "I", "S", "T", "A", "N", "T">>

\* countMessagesTokens(messages)
RECURSIVE sumMessageTokens(_, _)
sumMessageTokens(messages, enc) ==
  IF messages = <<>> THEN 0
  ELSE 4 + countTokens(RoleText(Head(messages).role), enc)
         + countTokens(Head(messages).content, enc)
         + sumMessageTokens(Tail(messages), enc)

countMessagesTokens(messages, enc) ==
  IF messages = <<>> THEN 0 ELSE sumMessageTokens(messages, enc) + 2

\* Array.prototype.slice(0, -count); -0 is 0, so slice(0, -0) is slice(0, 0)
sliceHead(full, count) ==
  IF count = 0 THEN <<>> ELSE SubSeq(full, 1, Max(Len(full) - count, 0))

\* Array.prototype.slice(-count); slice(-0) is slice(0), the whole array
sliceTail(full, count) ==
  IF count = 0 THEN full ELSE SubSeq(full, Max(Len(full) - count, 0) + 1, Len(full))

\* addMessage(role, content); the timestamp is the time of the call
addMessage(h, role, content, now) ==
  [h EXCEPT !.full = Append(@, [role |-> role, content |-> content, timestamp |-> now])]

\* getRecentMessages(count)
getRecentMessages(h, count) == sliceTail(h.full, count)

\* '\n\n'
BlankLine == <<"\n", "\n">>

\* _formatMessagesForCompression(messages)
RECURSIVE formatMessagesForCompression(_)
formatMessagesForCompression(messages) ==
  IF messages = <<>> THEN <<>>
  ELSE LET m    == Head(messages)
           line == RoleUpper(m.role) \o <<":", " ">> \o m.content
       IN IF Len(messages) = 1 THEN line
          ELSE line \o BlankLine \o formatMessagesForCompression(Tail(messages))

\* compressHistory returning early only on an empty window
compressReturnsEarlyOnEmptyOnly(full, keepRecentCount) == full = <<>>

\* compressHistory: the two early returns taken before any request is made
compressReturnsEarly(full, keepRecentCount) ==
  \/ Len(full) <= keepRecentCount
  \/ sliceHead(full, keepRecentCount) = <<>>

\* compressHistory overwriting the summary instead of appending to it
compressSucceededOverwrite(h, toKeep, compressed) ==
  [full |-> toKeep, compressed |-> compressed]

\* compressHistory, the try block after lmstudioClient.compress returned
compressSucceeded(h, toKeep, compressed) ==
  [ full       |-> toKeep,
    compressed |-> IF h.compressed # <<>>
                   THEN h.compressed \o BlankLine \o compressed
                   ELSE compressed ]

\* compressHistory dropping the compressed messages before knowing the outcome
compressFailedDiscard(h, toKeep) ==
  [ledger |-> [h EXCEPT !.full = toKeep], raised |-> FALSE]

\* compressHistory, the catch block: logs and keeps the original messages
compressFailed(h, toKeep) ==
  [ledger |-> h, raised |-> FALSE]

\* clearHistory()
clearedHistory == [full |-> <<>>, compressed |-> <<>>]

\* getMessagesForPrompt(tokenBudget, recentCount)
getMessagesForPrompt(h, tokenBudget, recentCount, enc, ulp) ==
  LET recentMessages   == getRecentMessages(h, recentCount)
      recentTokens     == countMessagesTokens(recentMessages, enc)
      compressedTokens == countTokens(h.compressed, enc)
      availableForCompressed == tokenBudget - recentTokens
  IN [ recentMessages    |-> recentMessages,
       compressedHistory |->
         IF recentTokens + compressedTokens > tokenBudget
         THEN IF availableForCompressed > 0
              THEN truncateToTokenLimit(h.compressed, availableForCompressed, enc, ulp)
              ELSE <<>>
         ELSE h.compressed ]

(* ------------------------------------------------------------------ *)
(* PromptBuilder                                                         *)
(* ------------------------------------------------------------------ *)

\* 'RELEVANT FILES:'
RelevantFilesTag ==
  <<"R", "E", "L", "E", "V", "A", "N", "T", " ", "F", "I", "L", "E", "S",
    ":">>

\* 'PREVIOUS CONVERSATION SUMMARY:\n'
SummaryHeading ==
  <<"P", "R", "E", "V", "I", "O", "U", "S", " ", "C", "O", "N", "V", "E",
    "R", "S", "A", "T", "I", "O", "N", " ", "S", "U", "M", "M", "A", "R",
    "Y", ":", "\n">>

\* '\n\n# PROJECT INSTRUCTIONS\n\n'
InstructionsHeading ==
  <<"\n", "\n", "#", " ", "P", "R", "O", "J", "E", "C", "T", " ", "I", "N",
    "S", "T", "R", "U", "C", "T", "I", "O", "N", "S", "\n", "\n">>

\* 'No pending tasks.'
NoPendingTasks ==
  <<"N", "o", " ", "p", "e", "n", "d", "i", "n", "g", " ", "t", "a", "s",
    "k", "s", ".">>

\* getTaskListForPrompt() with one pending task: 'CURRENT TASKS:\nPending:\n- t'
OnePendingTask ==
  <<"C", "U", "R", "R", "E", "N", "T", " ", "T", "A", "S", "K", "S", ":",
    "\n", "P", "e", "n", "d", "i", "n", "g", ":", "\n", "-", " ", "t">>

\* `--- ${file.path} ---\n`
fileHeader(path) == <<"-", "-", "-", " ">> \o path \o <<" ", "-", "-", "-", "\n">>

\* formatFileContents going on to the next file where it breaks
RECURSIVE formatFilesOn(_, _, _, _, _, _)
formatFilesOn(files, content, tokensUsed, tokenBudget, enc, ulp) ==
  IF files = <<>> THEN content
  ELSE LET file       == Head(files)
           header     == fileHeader(file.path)
           fileBlock  == header \o file.content \o BlankLine
           fileTokens == countTokens(fileBlock, enc)
           availableTokens ==
             tokenBudget - tokensUsed - countTokens(header \o BlankLine, enc)
       IN IF tokensUsed + fileTokens > tokenBudget
          THEN formatFilesOn(Tail(files),
                 IF availableTokens > 100
                 THEN content \o header
                        \o truncateToTokenLimit(file.content, availableTokens, enc, ulp)
                        \o BlankLine
                 ELSE content,
                 tokensUsed, tokenBudget, enc, ulp)
          ELSE formatFilesOn(Tail(files), content \o fileBlock, tokensUsed + fileTokens,
                             tokenBudget, enc, ulp)

\* formatFileContents: the loop over the files, from the content built so far
RECURSIVE formatFiles(_, _, _, _, _, _)
formatFiles(files, content, tokensUsed, tokenBudget, enc, ulp) ==
  IF files = <<>> THEN content
  ELSE LET file       == Head(files)
           header     == fileHeader(file.path)
           fileBlock  == header \o file.content \o BlankLine
           fileTokens == countTokens(fileBlock, enc)
           availableTokens ==
             tokenBudget - tokensUsed - countTokens(header \o BlankLine, enc)
       IN IF tokensUsed + fileTokens > tokenBudget
          THEN IF availableTokens > 100
               THEN content \o header
                      \o truncateToTokenLimit(file.content, availableTokens, enc, ulp)
                      \o BlankLine
               ELSE content
          ELSE formatFiles(Tail(files), content \o fileBlock, tokensUsed + fileTokens,
                           tokenBudget, enc, ulp)

\* formatFileContents(files, tokenBudget)
formatFileContents(files, tokenBudget, enc, ulp) ==
  IF files = <<>> THEN <<>>
  ELSE LET content == RelevantFilesTag \o BlankLine
       IN Trim(formatFiles(files, content, countTokens(content, enc),
                           tokenBudget, enc, ulp))

\* buildPrompt: the system message content
systemContentOf(systemPrompt, customInstructions, taskList) ==
  LET withInstructions ==
        IF customInstructions # <<>>
        THEN systemPrompt \o InstructionsHeading \o customInstructions
        ELSE systemPrompt
  IN IF taskList # <<>> /\ taskList # NoPendingTasks
     THEN withInstructions \o BlankLine \o taskList
     ELSE withInstructions

\* { role: msg.role, content: msg.content } for each recent message
RECURSIVE promptMessagesOf(_)
promptMessagesOf(recentMessages) ==
  IF recentMessages = <<>> THEN <<>>
  ELSE <<[role |-> Head(recentMessages).role, content |-> Head(recentMessages).content]>>
         \o promptMessagesOf(Tail(recentMessages))

\* buildPrompt: the message list as assembled, before the safety check
assembleMessages(systemContent, historyData, filesContent, userQuery) ==
  <<[role |-> "system", content |-> systemContent]>>
    \o (IF historyData.compressedHistory # <<>>
        THEN <<[role |-> "system",
                content |-> SummaryHeading \o historyData.compressedHistory]>>
        ELSE <<>>)
    \o (IF filesContent # <<>>
        THEN <<[role |-> "system", content |-> filesContent]>>
        ELSE <<>>)
    \o promptMessagesOf(historyData.recentMessages)
    \o <<[role |-> "user", content |-> userQuery]>>

\* messages.filter(m => m.role === 'system').length
systemCount(messages) ==
  Cardinality({i \in 1..Len(messages) : messages[i].role = "system"})

\* messages.splice(i, 1), with i counted from 1
removeAt(messages, i) ==
  SubSeq(messages, 1, i - 1) \o SubSeq(messages, i + 1, Len(messages))

\* the reduction loop taking the newest conversation message instead of the oldest
newestDroppable(messages, systemMessageCount) ==
  LET found == {i \in (systemMessageCount + 1)..(Len(messages) - 1) :
                  messages[i].role # "system"}
  IN IF found = {} THEN 0 ELSE CHOOSE i \in found : \A j \in found : j <= i

\* the inner for loop of the reduction: position (from 1) of the first
\* non-system message at or after systemMessageCount and before the user
\* query; 0 when there is none
firstDroppable(messages, systemMessageCount) ==
  LET found == {i \in (systemMessageCount + 1)..(Len(messages) - 1) :
                  messages[i].role # "system"}
  IN IF found = {} THEN 0 ELSE CHOOSE i \in found : \A j \in found : i <= j

\* position (from 1) of the first system message whose content includes
\* 'RELEVANT FILES:'; 0 when there is none
filesMessage(messages) ==
  LET found == {i \in 1..Len(messages) :
                  /\ messages[i].role = "system"
                  /\ Includes(messages[i].content, RelevantFilesTag)}
  IN IF found = {} THEN 0 ELSE CHOOSE i \in found : \A j \in found : i <= j

\* a reduction loop that goes on for as long as the prompt is over budget
reductionContinuesWhileOver(messages, actualTokens, availableTokens, systemMessageCount) ==
  actualTokens > availableTokens

\* the while condition of the reduction loop
reductionContinues(messages, actualTokens, availableTokens, systemMessageCount) ==
  /\ actualTokens > availableTokens
  /\ Len(messages) > systemMessageCount + 1
  /\ firstDroppable(messages, systemMessageCount) # 0

\* metadata.wasReduced
wasReduced(actualTokens, availableTokens) == actualTokens > availableTokens

(* ------------------------------------------------------------------ *)
(* JavaScript values                                                     *)
(* ------------------------------------------------------------------ *)

\* a string, a number, an array, an object (its properties in insertion
\* order, as <<key, value>> pairs) and the values that are none of these
Str(text) == [str |-> text]

Num(n) == [num |-> n]

Arr(elements) == [arr |-> elements]

Obj(properties) == [obj |-> properties]

Bool(b) == [bool |-> b]

undefined == [undef |-> TRUE]

null == [nil |-> TRUE]

NaN == [nan |-> TRUE]

IsStr(v) == DOMAIN v = {"str"}

IsNum(v) == DOMAIN v = {"num"}

IsArr(v) == DOMAIN v = {"arr"}

IsObj(v) == DOMAIN v = {"obj"}

\* ToBoolean(v): the falsy values are undefined, null, NaN, 0, '' and false
Truthy(v) ==
  IF IsStr(v) THEN v.str # <<>>
  ELSE IF IsNum(v) THEN v.num # 0
  ELSE IF DOMAIN v = {"bool"} THEN v.bool
  ELSE IsArr(v) \/ IsObj(v)

\* args.key: the value of the last property of that name, undefined when the
\* object has none or the value is not an object
RECURSIVE lookup(_, _)
lookup(properties, key) ==
  IF properties = <<>> THEN undefined
  ELSE IF properties[Len(properties)][1] = key THEN properties[Len(properties)][2]
  ELSE lookup(SubSeq(properties, 1, Len(properties) - 1), key)

Get(v, key) == IF IsObj(v) THEN lookup(v.obj, key) ELSE undefined

(* ------------------------------------------------------------------ *)
(* Regular expressions of the response parser                            *)
(* ------------------------------------------------------------------ *)

\* the lower-case letter of every upper-case letter
ToLower ==
  [ A |-> "a", B |-> "b", C |-> "c", D |-> "d", E |-> "e", F |-> "f",
    G |-> "g", H |-> "h", I |-> "i", J |-> "j", K |-> "k", L |-> "l",
    M |-> "m", N |-> "n", O |-> "o", P |-> "p", Q |-> "q", R |-> "r",
    S |-> "s", T |-> "t", U |-> "u", V |-> "v", W |-> "w", X |-> "x",
    Y |-> "y", Z |-> "z" ]

UpperCase == DOMAIN ToLower

\* canonical form of a character under the i flag
LowerChar(c) == IF c \in UpperCase THEN ToLower[c] ELSE c

\* characters the dot does not match
LineTerminators == {"\n", "\r"}

\* the elements the patterns are made of: a literal (in lower case), \s*,
\* the capture (.*?) and the capture ([\s\S]*?)
Lit(s) == [kind |-> "lit", s |-> s]

Spaces == [kind |-> "spaces", s |-> <<>>]

CaptureLine == [kind |-> "line", s |-> <<>>]

CaptureAny == [kind |-> "any", s |-> <<>>]

\* the literal s stands at position pos of text, letter case ignored
LitAt(text, pos, s) ==
  /\ pos + Len(s) - 1 <= Len(text)
  /\ \A i \in 1..Len(s) : LowerChar(text[pos + i - 1]) = s[i]

\* length of the run of white space that starts at pos
RECURSIVE SpaceRun(_, _)
SpaceRun(text, pos) ==
  IF pos <= Len(text) /\ text[pos] \in WhiteSpace THEN 1 + SpaceRun(text, pos + 1) ELSE 0

NoMatch == [ok |-> FALSE, end |-> 0, caps |-> <<>>]

\* a backtracking match of the pattern at position pos: \s* takes the
\* longest run first, a lazy capture the shortest text first; caps lists
\* the captures as <<position, length>>
RECURSIVE matchFrom(_, _, _, _)
RECURSIVE matchSpaces(_, _, _, _, _)
RECURSIVE matchLazy(_, _, _, _)
matchFrom(pat, text, pos, caps) ==
  IF pat = <<>> THEN [ok |-> TRUE, end |-> pos, caps |-> caps]
  ELSE IF Head(pat).kind = "lit"
       THEN IF LitAt(text, pos, Head(pat).s)
            THEN matchFrom(Tail(pat), text, pos + Len(Head(pat).s), caps)
            ELSE NoMatch
  ELSE IF Head(pat).kind = "spaces"
       THEN matchSpaces(pat, text, pos, SpaceRun(text, pos), caps)
  ELSE matchLazy(pat, text, pos, caps)

matchSpaces(pat, text, pos, n, caps) ==
  LET r == matchFrom(Tail(pat), text, pos + n, caps)
  IN IF r.ok \/ n = 0 THEN r ELSE matchSpaces(pat, text, pos, n - 1, caps)

\* the lazy capture takes the fewest characters with which the rest of the
\* pattern matches; the dot stops at a line terminator
matchLazy(pat, text, pos, caps) ==
  LET stops == IF Head(pat).kind = "line"
               THEN {i \in pos..Len(text) : text[i] \in LineTerminators}
               ELSE {}
      limit == IF stops = {} THEN Len(text) + 1
               ELSE CHOOSE i \in stops : \A j \in stops : i <= j
      fits  == {n \in 0..(limit - pos) :
                  matchFrom(Tail(pat), text, pos + n, Append(caps, <<pos, n>>)).ok}
  IN IF fits = {} THEN NoMatch
     ELSE LET n == CHOOSE k \in fits : \A j \in fits : k <= j
          IN matchFrom(Tail(pat), text, pos + n, Append(caps, <<pos, n>>))

\* the first position at or after pos where the pattern matches, 0 when
\* none; every pattern starts with a literal, so only the positions that
\* hold its first character are tried
firstMatch(pat, text, pos) ==
  LET first == Head(pat).s[1]
      found == {p \in pos..Len(text) :
                  LowerChar(text[p]) = first /\ matchFrom(pat, text, p, <<>>).ok}
  IN IF found = {} THEN 0 ELSE CHOOSE p \in found : \A q \in found : p <= q

\* while ((match = pattern.exec(text)) !== null) with the g flag: the capture
\* groups of every match, in document order
\* while ((match = pattern.exec(text)) !== null) with the g flag: the capture
\* groups of every match, in document order
RECURSIVE execAll(_, _, _)
execAll(pat, text, pos) ==
  LET p == firstMatch(pat, text, pos)
  IN IF p = 0 THEN <<>>
     ELSE LET r == matchFrom(pat, text, p, <<>>)
          IN <<[k \in 1..Len(r.caps) |->
                 SubSeq(text, r.caps[k][1], r.caps[k][1] + r.caps[k][2] - 1)]>>
               \o execAll(pat, text, r.end)

\* text.replace(pattern, '') with the g flag: what is left of text from pos on
RECURSIVE removeAll(_, _, _)
removeAll(pat, text, pos) ==
  LET p == firstMatch(pat, text, pos)
  IN IF p = 0 THEN SubSeq(text, pos, Len(text))
     ELSE SubSeq(text, pos, p - 1)
            \o removeAll(pat, text, matchFrom(pat, text, p, <<>>).end)

\* String.prototype.startsWith
StartsWith(text, prefix) == IsPrefix(prefix, text)

\* String.prototype.split on any one of the separator characters
RECURSIVE Split(_, _)
Split(text, separators) ==
  IF \E i \in 1..Len(text) : text[i] \in separators
  THEN LET i == CHOOSE k \in 1..Len(text) :
                  /\ text[k] \in separators
                  /\ \A j \in 1..(k - 1) : text[j] \notin separators
       IN <<SubSeq(text, 1, i - 1)>> \o Split(SubSeq(text, i + 1, Len(text)), separators)
  ELSE <<text>>

Digits == <<"0", "1", "2", "3", "4", "5", "6", "7", "8", "9">>

IsDigit(c) == \E i \in 1..10 : Digits[i] = c

DigitValue(c) == (CHOOSE i \in 1..10 : Digits[i] = c) - 1

\* value of the longest prefix of text made of digits, from the value so far
RECURSIVE digitsValue(_, _)
digitsValue(text, sofar) ==
  IF text # <<>> /\ IsDigit(Head(text))
  THEN digitsValue(Tail(text), 10 * sofar + DigitValue(Head(text)))
  ELSE sofar

\* parseInt(text, 10): white space, a sign, then the leading digits; NaN
\* when no digit follows
parseInt(text) ==
  LET t      == TrimStart(text)
      signed == t # <<>> /\ Head(t) \in {"-", "+"}
      body   == IF signed THEN Tail(t) ELSE t
  IN IF body = <<>> \/ ~IsDigit(Head(body)) THEN NaN
     ELSE IF signed /\ Head(t) = "-" THEN Num(0 - digitsValue(body, 0))
     ELSE Num(digitsValue(body, 0))

(* ------------------------------------------------------------------ *)
(* ResponseParser                                                        *)
(* ------------------------------------------------------------------ *)

Dashes == <<"-", "-", "-">>

Quotes == {"\"", "'"}

\* cleanPath(path)
cleanPath(path) ==
  LET a == Trim(path)
      b == IF StartsWith(a, Dashes) THEN TrimStart(SubSeq(a, 4, Len(a))) ELSE a
      c == IF Len(b) >= 3 /\ SubSeq(b, Len(b) - 2, Len(b)) = Dashes
           THEN TrimEnd(SubSeq(b, 1, Len(b) - 3)) ELSE b
      d == IF c # <<>> /\ Head(c) \in Quotes THEN Tail(c) ELSE c
      e == IF d # <<>> /\ d[Len(d)] \in Quotes THEN SubSeq(d, 1, Len(d) - 1) ELSE d
  IN Trim(e)

\* this.patterns
fileEditPattern ==
  << Lit(<<"<", "f", "i", "l", "e", "_", "e", "d", "i", "t", ">">>), Spaces, Lit(<<"<", "p", "a", "t", "h", ">">>), CaptureLine, Lit(<<"<", "/", "p", "a", "t", "h", ">">>),
     Spaces, Lit(<<"<", "o", "p", "e", "r", "a", "t", "i", "o", "n", ">">>), CaptureLine, Lit(<<"<", "/", "o", "p", "e", "r", "a", "t", "i", "o", "n", ">">>),
     Spaces, Lit(<<"<", "o", "l", "d", ">">>), CaptureAny, Lit(<<"<", "/", "o", "l", "d", ">">>),
     Spaces, Lit(<<"<", "n", "e", "w", ">">>), CaptureAny, Lit(<<"<", "/", "n", "e", "w", ">">>),
     Spaces, Lit(<<"<", "/", "f", "i", "l", "e", "_", "e", "d", "i", "t", ">">>) >>

fileCreatePattern ==
  << Lit(<<"<", "f", "i", "l", "e", "_", "c", "r", "e", "a", "t", "e", ">">>), Spaces, Lit(<<"<", "p", "a", "t", "h", ">">>), CaptureLine, Lit(<<"<", "/", "p", "a", "t", "h", ">">>),
     Spaces, Lit(<<"<", "c", "o", "n", "t", "e", "n", "t", ">">>), CaptureAny, Lit(<<"<", "/", "c", "o", "n", "t", "e", "n", "t", ">">>),
     Spaces, Lit(<<"<", "/", "f", "i", "l", "e", "_", "c", "r", "e", "a", "t", "e", ">">>) >>

fileDeletePattern ==
  << Lit(<<"<", "f", "i", "l", "e", "_", "d", "e", "l", "e", "t", "e", ">">>), Spaces, Lit(<<"<", "p", "a", "t", "h", ">">>), CaptureLine, Lit(<<"<", "/", "p", "a", "t", "h", ">">>),
     Spaces, Lit(<<"<", "/", "f", "i", "l", "e", "_", "d", "e", "l", "e", "t", "e", ">">>) >>

taskUpdatePattern ==
  << Lit(<<"<", "t", "a", "s", "k", "_", "u", "p", "d", "a", "t", "e", ">">>), CaptureAny, Lit(<<"<", "/", "t", "a", "s", "k", "_", "u", "p", "d", "a", "t", "e", ">">>) >>

questionPattern ==
  << Lit(<<"<", "q", "u", "e", "s", "t", "i", "o", "n", ">">>), CaptureAny, Lit(<<"<", "/", "q", "u", "e", "s", "t", "i", "o", "n", ">">>) >>

searchPattern ==
  << Lit(<<"<", "s", "e", "a", "r", "c", "h", ">">>), CaptureAny, Lit(<<"<", "/", "s", "e", "a", "r", "c", "h", ">">>) >>

readLinesPattern ==
  << Lit(<<"<", "r", "e", "a", "d", "_", "l", "i", "n", "e", "s", ">">>), Spaces, Lit(<<"<", "p", "a", "t", "h", ">">>), CaptureLine, Lit(<<"<", "/", "p", "a", "t", "h", ">">>),
     Spaces, Lit(<<"<", "s", "t", "a", "r", "t", ">">>), CaptureLine, Lit(<<"<", "/", "s", "t", "a", "r", "t", ">">>),
     Spaces, Lit(<<"<", "e", "n", "d", ">">>), CaptureLine, Lit(<<"<", "/", "e", "n", "d", ">">>),
     Spaces, Lit(<<"<", "/", "r", "e", "a", "d", "_", "l", "i", "n", "e", "s", ">">>) >>

\* extractFileEdits(responseText)
extractFileEdits(responseText) ==
  LET matches == execAll(fileEditPattern, responseText, 1)
  IN [i \in 1..Len(matches) |->
        [ type      |-> Str(<<"e", "d", "i", "t">>),
          path      |-> Str(cleanPath(matches[i][1])),
          operation |-> Str(Trim(matches[i][2])),
          oldText   |-> Str(Trim(matches[i][3])),
          newText   |-> Str(Trim(matches[i][4])) ]]

\* extractFileCreates(responseText)
extractFileCreates(responseText) ==
  LET matches == execAll(fileCreatePattern, responseText, 1)
  IN [i \in 1..Len(matches) |->
        [ type    |-> Str(<<"c", "r", "e", "a", "t", "e">>),
          path    |-> Str(cleanPath(matches[i][1])),
          content |-> Str(Trim(matches[i][2])) ]]

\* extractFileDeletes(responseText)
extractFileDeletes(responseText) ==
  LET matches == execAll(fileDeletePattern, responseText, 1)
  IN [i \in 1..Len(matches) |->
        [ type |-> Str(<<"d", "e", "l", "e", "t", "e">>),
          path |-> Str(cleanPath(matches[i][1])) ]]

\* the character U+2713 (check mark), which is not in the ASCII range
CheckMark == "U+2713"

\* the markers a task line may start with, each with the status it gives;
\* the first that applies decides
TaskMarkers ==
  << <<<<"-", " ", "D", "O", "N", "E", ":">>, <<"c", "o", "m", "p", "l", "e", "t", "e", "d">>>>, <<<<"-", " ", CheckMark>>, <<"c", "o", "m", "p", "l", "e", "t", "e", "d">>>>,
     <<<<"-", " ", "T", "O", "D", "O", ":">>, <<"p", "e", "n", "d", "i", "n", "g">>>>, <<<<"-", " ", "[", " ", "]">>, <<"p", "e", "n", "d", "i", "n", "g">>>>,
     <<<<"-", " ", "I", "N", "_", "P", "R", "O", "G", "R", "E", "S", "S", ":">>, <<"i", "n", "-", "p", "r", "o", "g", "r", "e", "s", "s">>>>, <<<<"-", " ", "[", "~", "]">>, <<"i", "n", "-", "p", "r", "o", "g", "r", "e", "s", "s">>>>,
     <<<<"-", " ">>, <<"p", "e", "n", "d", "i", "n", "g">>>> >>

\* _parseTaskUpdateContent: the task of one line, <<>> when the line is no task
taskOfLine(line) ==
  LET trimmed == Trim(line)
      hits    == {k \in 1..Len(TaskMarkers) : StartsWith(trimmed, TaskMarkers[k][1])}
  IN IF hits = {} THEN <<>>
     ELSE LET k    == CHOOSE h \in hits : \A j \in hits : h <= j
              rest == SubSeq(trimmed, Len(TaskMarkers[k][1]) + 1, Len(trimmed))
          IN << [ status      |-> Str(TaskMarkers[k][2]),
                  description |-> Str(IF k = Len(TaskMarkers) THEN rest
                                      ELSE TrimStart(rest)) ] >>

RECURSIVE tasksOfLines(_)
tasksOfLines(lines) ==
  IF lines = <<>> THEN <<>> ELSE taskOfLine(Head(lines)) \o tasksOfLines(Tail(lines))

\* _parseTaskUpdateContent(content)
parseTaskUpdateContent(content) == tasksOfLines(Split(content, {"\n"}))

RECURSIVE tasksOfMatches(_)
tasksOfMatches(matches) ==
  IF matches = <<>> THEN <<>>
  ELSE parseTaskUpdateContent(Trim(Head(matches)[1])) \o tasksOfMatches(Tail(matches))

\* extractTaskUpdates(responseText)
extractTaskUpdates(responseText) ==
  tasksOfMatches(execAll(taskUpdatePattern, responseText, 1))

\* extractQuestions(responseText)
extractQuestions(responseText) ==
  LET matches == execAll(questionPattern, responseText, 1)
  IN [i \in 1..Len(matches) |-> Str(Trim(matches[i][1]))]

\* .map(k => k.trim()).filter(k => k.length > 0)
RECURSIVE keywordsOf(_)
keywordsOf(pieces) ==
  IF pieces = <<>> THEN <<>>
  ELSE (IF Trim(Head(pieces)) # <<>> THEN <<Str(Trim(Head(pieces)))>> ELSE <<>>)
         \o keywordsOf(Tail(pieces))

RECURSIVE searchesOfMatches(_)
searchesOfMatches(matches) ==
  IF matches = <<>> THEN <<>>
  ELSE keywordsOf(Split(Trim(Head(matches)[1]), {",", "\n"}))
         \o searchesOfMatches(Tail(matches))

\* extractSearches(responseText)
extractSearches(responseText) ==
  searchesOfMatches(execAll(searchPattern, responseText, 1))

RECURSIVE readLinesOfMatches(_)
readLinesOfMatches(matches) ==
  IF matches = <<>> THEN <<>>
  ELSE LET startLine == parseInt(Trim(Head(matches)[2]))
           endLine   == parseInt(Trim(Head(matches)[3]))
       IN (IF startLine # NaN /\ endLine # NaN
           THEN << [ path      |-> Str(cleanPath(Head(matches)[1])),
                     startLine |-> startLine,
                     endLine   |-> endLine ] >>
           ELSE <<>>)
          \o readLinesOfMatches(Tail(matches))

\* extractReadLines(responseText)
extractReadLines(responseText) ==
  readLinesOfMatches(execAll(readLinesPattern, responseText, 1))

\* the blocks _extractPlainText removes whole
PlainTextBlocks ==
  << <<Lit(<<"<", "f", "i", "l", "e", "_", "e", "d", "i", "t", ">">>), CaptureAny, Lit(<<"<", "/", "f", "i", "l", "e", "_", "e", "d", "i", "t", ">">>)>>,
     <<Lit(<<"<", "f", "i", "l", "e", "_", "c", "r", "e", "a", "t", "e", ">">>), CaptureAny, Lit(<<"<", "/", "f", "i", "l", "e", "_", "c", "r", "e", "a", "t", "e", ">">>)>>,
     <<Lit(<<"<", "f", "i", "l", "e", "_", "d", "e", "l", "e", "t", "e", ">">>), CaptureAny, Lit(<<"<", "/", "f", "i", "l", "e", "_", "d", "e", "l", "e", "t", "e", ">">>)>>,
     <<Lit(<<"<", "t", "a", "s", "k", "_", "u", "p", "d", "a", "t", "e", ">">>), CaptureAny, Lit(<<"<", "/", "t", "a", "s", "k", "_", "u", "p", "d", "a", "t", "e", ">">>)>>,
     <<Lit(<<"<", "q", "u", "e", "s", "t", "i", "o", "n", ">">>), CaptureAny, Lit(<<"<", "/", "q", "u", "e", "s", "t", "i", "o", "n", ">">>)>>,
     <<Lit(<<"<", "r", "e", "a", "d", "_", "l", "i", "n", "e", "s", ">">>), CaptureAny, Lit(<<"<", "/", "r", "e", "a", "d", "_", "l", "i", "n", "e", "s", ">">>)>> >>

RECURSIVE removeBlocks(_, _)
removeBlocks(text, patterns) ==
  IF patterns = <<>> THEN text
  ELSE removeBlocks(removeAll(Head(patterns), text, 1), Tail(patterns))

\* text.replace(/<[^>]+>/g, ''): a '<', one or more characters other than
\* '>', then a '>'
RECURSIVE removeTags(_)
removeTags(text) ==
  LET opens == {p \in 1..(Len(text) - 2) :
                  /\ text[p] = "<"
                  /\ text[p + 1] # ">"
                  /\ \E i \in (p + 2)..Len(text) : text[i] = ">"}
  IN IF opens = {} THEN text
     ELSE LET p     == CHOOSE o \in opens : \A q \in opens : o <= q
              close == CHOOSE i \in (p + 2)..Len(text) :
                         /\ text[i] = ">"
                         /\ \A j \in (p + 2)..(i - 1) : text[j] # ">"
          IN SubSeq(text, 1, p - 1) \o removeTags(SubSeq(text, close + 1, Len(text)))

\* _extractPlainText(responseText)
extractPlainText(responseText) ==
  Trim(removeTags(removeBlocks(responseText, PlainTextBlocks)))

\* parseResponse(responseText)
parseResponse(responseText) ==
  [ originalText |-> Str(responseText),
    fileEdits    |-> extractFileEdits(responseText),
    fileCreates  |-> extractFileCreates(responseText),
    fileDeletes  |-> extractFileDeletes(responseText),
    taskUpdates  |-> extractTaskUpdates(responseText),
    questions    |-> extractQuestions(responseText),
    searches     |-> extractSearches(responseText),
    readLines    |-> extractReadLines(responseText),
    plainText    |-> Str(extractPlainText(responseText)) ]

\* hasActions: the test on the parsed response
anyAction(parsed) ==
  \/ Len(parsed.fileEdits) > 0
  \/ Len(parsed.fileCreates) > 0
  \/ Len(parsed.fileDeletes) > 0
  \/ Len(parsed.taskUpdates) > 0

\* a test that also counts the requests for a follow-up round
anyActionOrRequest(parsed) ==
  \/ anyAction(parsed)
  \/ Len(parsed.searches) > 0
  \/ Len(parsed.readLines) > 0

\* hasActions that also counts the requests for a follow-up round
hasActionsOrRequests(responseText) == anyActionOrRequest(parseResponse(responseText))

\* hasActions(responseText)
hasActions(responseText) == anyAction(parseResponse(responseText))

(* ------------------------------------------------------------------ *)
(* tools: the function-call grammar                                      *)
(* ------------------------------------------------------------------ *)

JsonSpace == {" ", "\t", "\n", "\r"}

JsonFail == [ok |-> FALSE, value |-> undefined, pos |-> 0]

RECURSIVE skipSpace(_, _)
skipSpace(text, pos) ==
  IF pos <= Len(text) /\ text[pos] \in JsonSpace THEN skipSpace(text, pos + 1) ELSE pos

\* the character an escape sequence of a JSON string stands for; "" when
\* the character after the backslash starts no escape
Unescaped(c) ==
  CASE c = "n"  -> "\n"
    [] c = "t"  -> "\t"
    [] c = "r"  -> "\r"
    [] c = "\"" -> "\""
    [] c = "\\" -> "\\"
    [] c = "/"  -> "/"
    [] OTHER    -> ""

\* a JSON string from the character after its opening quote
RECURSIVE jsonString(_, _, _)
jsonString(text, pos, sofar) ==
  IF pos > Len(text) THEN JsonFail
  ELSE IF text[pos] = "\"" THEN [ok |-> TRUE, value |-> Str(sofar), pos |-> pos + 1]
  ELSE IF text[pos] = "\\"
       THEN IF pos + 1 > Len(text) \/ Unescaped(text[pos + 1]) = "" THEN JsonFail
            ELSE jsonString(text, pos + 2, Append(sofar, Unescaped(text[pos + 1])))
  ELSE IF text[pos] \in {"\n", "\t", "\r"} THEN JsonFail
  ELSE jsonString(text, pos + 1, Append(sofar, text[pos]))

\* number of digits at the head of text
RECURSIVE digitRun(_)
digitRun(text) ==
  IF text # <<>> /\ IsDigit(Head(text)) THEN 1 + digitRun(Tail(text)) ELSE 0

\* a JSON integer: an optional minus, then digits without a leading zero
jsonNumber(text, pos) ==
  LET negative == text[pos] = "-"
      first    == IF negative THEN pos + 1 ELSE pos
      body     == SubSeq(text, first, Len(text))
      n        == digitRun(body)
  IN IF n = 0 \/ (n > 1 /\ Head(body) = "0") THEN JsonFail
     ELSE [ ok    |-> TRUE,
            value |-> Num(IF negative THEN 0 - digitsValue(body, 0)
                          ELSE digitsValue(body, 0)),
            pos   |-> first + n ]

\* a JSON value that starts at or after position from; numbers are integers
RECURSIVE jsonValue(_, _)
RECURSIVE jsonElements(_, _, _)
RECURSIVE jsonMembers(_, _, _)
jsonValue(text, from) ==
  LET pos == skipSpace(text, from)
  IN IF pos > Len(text) THEN JsonFail
     ELSE IF text[pos] = "\"" THEN jsonString(text, pos + 1, <<>>)
     ELSE IF text[pos] = "["
          THEN LET p == skipSpace(text, pos + 1)
               IN IF p <= Len(text) /\ text[p] = "]"
                  THEN [ok |-> TRUE, value |-> Arr(<<>>), pos |-> p + 1]
                  ELSE jsonElements(text, pos + 1, <<>>)
     ELSE IF text[pos] = "{"
          THEN LET p == skipSpace(text, pos + 1)
               IN IF p <= Len(text) /\ text[p] = "}"
                  THEN [ok |-> TRUE, value |-> Obj(<<>>), pos |-> p + 1]
                  ELSE jsonMembers(text, pos + 1, <<>>)
     ELSE IF LitAt(text, pos, <<"t", "r", "u", "e">>)
          THEN [ok |-> TRUE, value |-> Bool(TRUE), pos |-> pos + 4]
     ELSE IF LitAt(text, pos, <<"f", "a", "l", "s", "e">>)
          THEN [ok |-> TRUE, value |-> Bool(FALSE), pos |-> pos + 5]
     ELSE IF LitAt(text, pos, <<"n", "u", "l", "l">>)
          THEN [ok |-> TRUE, value |-> null, pos |-> pos + 4]
     ELSE jsonNumber(text, pos)

jsonElements(text, from, sofar) ==
  LET v == jsonValue(text, from)
      p == skipSpace(text, v.pos)
  IN IF ~v.ok \/ p > Len(text) THEN JsonFail
     ELSE IF text[p] = "," THEN jsonElements(text, p + 1, Append(sofar, v.value))
     ELSE IF text[p] = "]"
          THEN [ok |-> TRUE, value |-> Arr(Append(sofar, v.value)), pos |-> p + 1]
     ELSE JsonFail

jsonMembers(text, from, sofar) ==
  LET p1 == skipSpace(text, from)
  IN IF p1 > Len(text) \/ text[p1] # "\"" THEN JsonFail
     ELSE LET k  == jsonString(text, p1 + 1, <<>>)
              p2 == skipSpace(text, k.pos)
          IN IF ~k.ok \/ p2 > Len(text) \/ text[p2] # ":" THEN JsonFail
             ELSE LET v  == jsonValue(text, p2 + 1)
                      p3 == skipSpace(text, v.pos)
                      properties == Append(sofar, <<k.value.str, v.value>>)
                  IN IF ~v.ok \/ p3 > Len(text) THEN JsonFail
                     ELSE IF text[p3] = "," THEN jsonMembers(text, p3 + 1, properties)
                     ELSE IF text[p3] = "}"
                          THEN [ok |-> TRUE, value |-> Obj(properties), pos |-> p3 + 1]
                     ELSE JsonFail

\* JSON.parse(text): ok is FALSE when it throws a SyntaxError
JSONparse(text) ==
  LET v == jsonValue(text, 1)
  IN IF v.ok /\ skipSpace(text, v.pos) > Len(text)
     THEN [ok |-> TRUE, value |-> v.value]
     ELSE [ok |-> FALSE, value |-> undefined]

\* hasToolCalls(response)
hasToolCalls(response) == Len(response.tool_calls) > 0

\* parseToolCalls(response)
parseToolCalls(response) ==
  IF ~hasToolCalls(response) THEN <<>>
  ELSE [ i \in 1..Len(response.tool_calls) |->
           LET toolCall == response.tool_calls[i]
               args     == JSONparse(toolCall.function.arguments)
           IN IF args.ok
              THEN [ id |-> toolCall.id, name |-> toolCall.function.name,
                     arguments |-> args.value ]
              ELSE [ id |-> toolCall.id, name |-> toolCall.function.name,
                     arguments |-> Obj(<<>>),
                     error |-> Str(<<"F", "a", "i", "l", "e", "d", " ", "t", "o", " ", "p", "a", "r", "s", "e", " ", "a", "r", "g", "u", "m", "e", "n", "t", "s">>) ] ]

\* the lists convertToolCallsToActions starts from
NoActions ==
  [ searches |-> <<>>, readLines |-> <<>>, fileEdits |-> <<>>,
    fileCreates |-> <<>>, fileDeletes |-> <<>>, taskUpdates |-> <<>> ]

\* args.keywords || []
keywordsOrNone(args) ==
  IF Truthy(Get(args, <<"k", "e", "y", "w", "o", "r", "d", "s">>)) THEN Get(args, <<"k", "e", "y", "w", "o", "r", "d", "s">>) ELSE Arr(<<>>)

\* ...keywords: the elements of an array, the characters of a string
spread(v) ==
  IF IsArr(v) THEN v.arr ELSE [i \in 1..Len(v.str) |-> Str(<<v.str[i]>>)]

\* reading a property of null, or spreading a value that is not iterable,
\* throws a TypeError
convertThrows(toolCall) ==
  \/ toolCall.arguments = null
  \/ /\ toolCall.name = "search_code"
     /\ ~IsArr(keywordsOrNone(toolCall.arguments))
     /\ ~IsStr(keywordsOrNone(toolCall.arguments))

\* convertToolCallsToActions: the switch, applied to one tool call
convertOne(actions, toolCall) ==
  LET name == toolCall.name
      args == toolCall.arguments
  IN CASE name = "search_code" ->
            [actions EXCEPT !.searches = @ \o spread(keywordsOrNone(args))]
       [] name = "read_file_lines" ->
            [actions EXCEPT !.readLines = Append(@,
               [ path      |-> Get(args, <<"p", "a", "t", "h">>),
                 startLine |-> Get(args, <<"s", "t", "a", "r", "t", "_", "l", "i", "n", "e">>),
                 endLine   |-> Get(args, <<"e", "n", "d", "_", "l", "i", "n", "e">>) ])]
       [] name = "edit_file" ->
            [actions EXCEPT !.fileEdits = Append(@,
               [ path        |-> Get(args, <<"p", "a", "t", "h">>),
                 oldText     |-> Get(args, <<"o", "l", "d", "_", "t", "e", "x", "t">>),
                 newText     |-> Get(args, <<"n", "e", "w", "_", "t", "e", "x", "t">>),
                 description |-> Get(args, <<"d", "e", "s", "c", "r", "i", "p", "t", "i", "o", "n">>) ])]
       [] name = "create_file" ->
            [actions EXCEPT !.fileCreates = Append(@,
               [ path        |-> Get(args, <<"p", "a", "t", "h">>),
                 content     |-> Get(args, <<"c", "o", "n", "t", "e", "n", "t">>),
                 description |-> Get(args, <<"d", "e", "s", "c", "r", "i", "p", "t", "i", "o", "n">>) ])]
       [] name = "delete_file" ->
            [actions EXCEPT !.fileDeletes = Append(@,
               [ path   |-> Get(args, <<"p", "a", "t", "h">>),
                 reason |-> Get(args, <<"r", "e", "a", "s", "o", "n">>) ])]
       [] name = "update_task" ->
            [actions EXCEPT !.taskUpdates = Append(@,
               [ description |-> Get(args, <<"d", "e", "s", "c", "r", "i", "p", "t", "i", "o", "n">>),
                 status      |-> Get(args, <<"s", "t", "a", "t", "u", "s">>) ])]
       [] OTHER -> actions

RECURSIVE convertFrom(_, _)
convertFrom(actions, toolCalls) ==
  IF toolCalls = <<>> THEN [actions |-> actions, raised |-> FALSE]
  ELSE IF convertThrows(Head(toolCalls)) THEN [actions |-> actions, raised |-> TRUE]
  ELSE convertFrom(convertOne(actions, Head(toolCalls)), Tail(toolCalls))

\* convertToolCallsToActions(toolCalls): the actions it returns, or raised
\* when it throws instead
convertToolCallsToActions(toolCalls) == convertFrom(NoActions, toolCalls)

(* ------------------------------------------------------------------ *)
(* State                                                                 *)
(* ------------------------------------------------------------------ *)

VARIABLES
  encoding,      \* TokenCounter.encoding: TRUE when tiktoken loaded, FALSE when null
  tcText,        \* text argument of truncateToTokenLimit
  tcMaxTokens,   \* maxTokens argument of truncateToTokenLimit
  tcAvailable,   \* availableTokens argument of allocateTokenBudget
  tcTruncated,   \* [done, text]: value returned by truncateToTokenLimit
  tcBudget,      \* [done, budget]: value returned by allocateTokenBudget
  contextWindow,        \* LMStudioClient.contextWindow
  recentMessagesCount,  \* config.contextManagement.recentMessagesCount
  history,       \* ContextManager.history: [full, compressed]
  clock,         \* number of messages appended so far (source of timestamps)
  cm,            \* the running compressHistory call: its position and locals
  cmLast,        \* what the compressHistory call just made was given and what it
                 \* did; NoCall again once the session starts another operation
  pb,            \* the running buildPrompt call: its position, inputs, locals and result
  intent,        \* the one intent the response expresses in both grammars, or NoIntent
  response,      \* the model response: [content, tool_calls]
  parsed,        \* [done, value]: value returned by parseResponse(response.content)
  converted,     \* [done, toolCalls, actions, raised]: parseToolCalls, then
                 \* convertToolCallsToActions
  answered,      \* [done, value]: value returned by hasActions(response.content)
  cleaned,       \* [path, calls, once, result]: a raw path, the number of times
                 \* cleanPath was applied to it, and what the first and the
                 \* last application returned
  q,             \* the running processQuery call: its position, locals and model call
  ex,            \* the running executeActions call: its position, the files and
                 \* the index it works on, and what it did
  ix,            \* the codebase index and the last call of the CodebaseIndexer:
                 \* its arguments, what it read and what it returned
  rq,            \* one call of LMStudioClient.complete on its own: its attempts,
                 \* the errors they were rejected with and the waits between them
  sc,            \* one call of ContextManager.shouldCompress: its arguments, the
                 \* client's last usage reading and what it returned
  ff             \* one call of PromptBuilder.formatFileContents: its arguments
                 \* and what it returned

tokVars == <<tcText, tcMaxTokens, tcAvailable, tcTruncated, tcBudget>>

ledgerVars == <<contextWindow, recentMessagesCount, history, clock, cm, cmLast>>

parseVars == <<intent, response, parsed, converted, answered, cleaned>>

runVars == <<q, ex, ix, rq, sc, ff>>

vars == <<encoding, tokVars, ledgerVars, pb, parseVars, runVars>>

\* cmLast before any compressHistory call
NoCall ==
  [ k |-> 0, before |-> clearedHistory, requested |-> FALSE, sent |-> <<>>,
    outcome |-> "none", summary |-> <<>>, raised |-> FALSE ]

\* no compressHistory call is running
CmIdle == [pc |-> "idle", toKeep |-> <<>>, conversationText |-> <<>>]

\* the budget before allocateTokenBudget is called
NoBudget ==
  [ systemPrompt |-> 0, taskList |-> 0, compressedHistory |-> 0,
    recentHistory |-> 0, fileContents |-> 0, userQuery |-> 0 ]

\* metadata before buildPrompt returns
NoMetadata ==
  [ totalTokens |-> 0, availableTokens |-> 0, budget |-> NoBudget, fileCount |-> 0,
    historyMessageCount |-> 0, hasCompressedHistory |-> FALSE, wasReduced |-> FALSE ]

\* no buildPrompt call is running
PbIdle ==
  [ pc |-> "idle", messages |-> <<>>, assembled |-> <<>>, actualTokens |-> 0,
    initialTokens |-> 0, availableTokens |-> 0, systemMessageCount |-> 0,
    systemContent |-> <<>>, userQuery |-> <<>>, filesContent |-> <<>>,
    historyData |-> [recentMessages |-> <<>>, compressedHistory |-> <<>>],
    metadata |-> NoMetadata ]

\* no intent: the response is not one intent in two grammars
NoIntent ==
  [ kind |-> "none", path |-> <<>>, oldText |-> <<>>, newText |-> <<>>,
    content |-> <<>>, description |-> <<>>, status |-> <<>>, keywords |-> <<>>,
    startLine |-> 0, endLine |-> 0 ]

\* what parseResponse('') returns
NotParsed ==
  [ originalText |-> Str(<<>>), fileEdits |-> <<>>, fileCreates |-> <<>>,
    fileDeletes |-> <<>>, taskUpdates |-> <<>>, questions |-> <<>>,
    searches |-> <<>>, readLines |-> <<>>, plainText |-> Str(<<>>) ]

\* nothing was converted yet
NotConverted == [done |-> FALSE, toolCalls |-> <<>>, actions |-> NoActions, raised |-> FALSE]

\* the response parser was given nothing
\* cleanPath was not called
NotCleaned == [path |-> <<>>, calls |-> 0, once |-> <<>>, result |-> <<>>]

ParserIdle ==
  /\ intent = NoIntent
  /\ response = [content |-> <<>>, tool_calls |-> <<>>]
  /\ parsed = [done |-> FALSE, value |-> NotParsed]
  /\ converted = NotConverted
  /\ answered = [done |-> FALSE, value |-> FALSE]
  /\ cleaned = NotCleaned

\* what complete returns: { type, content } or { type, tool_calls, message },
\* content standing for message.content too
NoResponse == [type |-> "none", content |-> <<>>, tool_calls |-> <<>>]

\* no processQuery call is running. The fields from "calls" on are not data
\* of the program: they record what the call has done so far.
\*   pc         "idle", "request" (an HTTP request of a model call is
\*              awaited), "sleep" (the backoff between two attempts),
\*              "confirm" (the inquirer prompt 'Execute these actions?'),
\*              "save" (saveState is awaited)
\*   call       the complete() call being awaited: "first", "tools" (follow-up
\*              of a tool_calls response), "context" (follow-up with the
\*              results of the requests), or "none"
\*   attempt    loop index of retryRequest / completeWithStreaming
\*   signal     whether options.signal was passed to the call
\*   aborted    abortController.signal.aborted
\*   before     the ledger when processQuery was called
\*   calls, completed   complete() calls made, and those that returned or threw
\*   requested  the first response held search or read-line requests
\*   from       the response the actions in parsed were read from
\*   failed     a complete() call threw
\*   cancelled  the call that was awaited when the signal fired
\*   after      what happened after that
QIdle ==
  [ pc |-> "idle", call |-> "none", attempt |-> 0, signal |-> FALSE,
    aborted |-> FALSE, supportsTools |-> FALSE, query |-> <<>>,
    response |-> NoResponse, currentResponse |-> <<>>,
    parsed |-> NotParsed,
    before |-> clearedHistory, calls |-> 0, completed |-> 0,
    requested |-> FALSE, from |-> "none", failed |-> FALSE,
    cancelled |-> "none", after |-> {} ]

\* no executeActions call is running. The fields from "before" on are not
\* data of the program: they record what the call was given and has done.
\*   pc       "idle", "edits", "creates", "deletes" (the loop whose operation
\*            is awaited), "done"
\*   i        position in the list of that loop
\*   parsed   the argument: fileEdits, fileCreates, fileDeletes, taskUpdates
\*   files    the files under the project root: path -> content
\*   index    codebaseIndexer.index.files, as relative paths
\*   tasks    taskManager.tasks, as [description, status]
\*   before   the files when executeActions was called
\*   log      the operations carried out, as <<loop, position>>
\*   outcome  "succeeded" or "failed": the message the spinner ends with
\*   cause    why the failing operation failed
\*   raised   executeActions threw
ExIdle ==
  [ pc |-> "idle", i |-> 0,
    parsed |-> [ fileEdits |-> <<>>, fileCreates |-> <<>>, fileDeletes |-> <<>>,
                 taskUpdates |-> <<>> ],
    files |-> <<>>, index |-> {}, tasks |-> <<>>,
    before |-> <<>>, log |-> <<>>, outcome |-> "none", cause |-> "none",
    raised |-> FALSE ]

\* the indexer with an empty index and no call made; a behaviour follows
\* one call:
\*   files          index.files, in index order
\*   op             the method called last
\*   query, maxResults           arguments of searchFiles
\*   content, startLine, endLine what readLineRange read and was given
\*   args           the arguments of extractFunctionContext, of
\*                  searchFileContents, of buildIndex or of updateIndex, with
\*                  what they read
\*   disk           what is at each path under the root while the index is
\*                  built and updated
\*   searchResults, contents, smallFileThreshold
\*                  argument of loadFilesFromSearchResults, what it read for
\*                  each result, and config.search.smallFileThreshold
\*   result         what the call returned, raised when it threw
IxIdle ==
  [ files |-> <<>>, op |-> "none",
    query |-> <<>>, maxResults |-> 0,
    content |-> [missing |-> TRUE], startLine |-> 0, endLine |-> 0,
    searchResults |-> <<>>, contents |-> <<>>, smallFileThreshold |-> [undef |-> TRUE],
    args |-> [none |-> TRUE],
    disk |-> <<>>,
    result |-> [none |-> TRUE] ]

\* no call of complete:
\*   pc         "idle", "request" (an attempt is awaited), "sleep" (the
\*              backoff is awaited) or "done"
\*   streaming  the call goes through completeWithStreaming
\*   attempt    the loop variable of retryRequest and completeWithStreaming
\*   sent       number of requests sent
\*   errors     what the requests were rejected with, oldest first
\*   waits      the delays slept between the attempts, in milliseconds
\*   outcome    "returned" or "thrown"
\*   thrown     the error complete threw
RqIdle ==
  [ pc |-> "idle", streaming |-> FALSE, attempt |-> 0, sent |-> 0,
    errors |-> <<>>, waits |-> <<>>, outcome |-> "none",
    thrown |-> [none |-> TRUE] ]

\* shouldCompress was not called:
\*   currentTokens, maxTokens, threshold   the arguments, threshold in percent
\*   lastUsage   lmstudioClient.getLastUsage(): null or { promptTokens }
\*   result      what the call returned
ScIdle ==
  [ done |-> FALSE, currentTokens |-> [nil |-> TRUE], maxTokens |-> [nil |-> TRUE],
    threshold |-> [undef |-> TRUE], lastUsage |-> [nil |-> TRUE], result |-> FALSE ]

\* formatFileContents was not called:
\*   files, tokenBudget   the arguments
\*   result               the text it returned
FfIdle == [done |-> FALSE, files |-> <<>>, tokenBudget |-> 0, result |-> <<>>]

\* no query is being processed, no actions are being executed and the
\* indexer, the client, shouldCompress and formatFileContents were not called
RunIdle ==
  /\ q = QIdle
  /\ ex = ExIdle
  /\ ix = IxIdle
  /\ rq = RqIdle
  /\ sc = ScIdle
  /\ ff = FfIdle

\* the session parts SpecTok leaves alone
LedgerIdle ==
  /\ contextWindow = 830
  /\ recentMessagesCount = 0
  /\ history = clearedHistory
  /\ clock = 0
  /\ cm = CmIdle
  /\ cmLast = NoCall
  /\ pb = PbIdle

(* ------------------------------------------------------------------ *)
(* Token ledger: the pure functions applied to bounded inputs            *)
(* ------------------------------------------------------------------ *)

\* texts handed to truncateToTokenLimit: a symbol-heavy head and a prose tail
TokTexts ==
  { Rep("#", i) \o Rep("a", j) : i \in {0, 120}, j \in {0, 2, 20, 300} }

TokInit ==
  /\ encoding \in BOOLEAN
  /\ tcText \in TokTexts
  /\ tcMaxTokens \in 0..MaxLimit
  /\ tcAvailable \in 0..MaxAvailable
  /\ tcTruncated = [done |-> FALSE, text |-> <<>>]
  /\ tcBudget = [done |-> FALSE, budget |-> NoBudget]
  /\ LedgerIdle
  /\ ParserIdle
  /\ RunIdle

\* a call of truncateToTokenLimit(tcText, tcMaxTokens)
Truncate ==
  /\ ~tcTruncated.done
  /\ \E ulp \in {0, 1} :
       tcTruncated' = [done |-> TRUE,
                       text |-> truncateToTokenLimit(tcText, tcMaxTokens, encoding, ulp)]
  /\ UNCHANGED <<encoding, tcText, tcMaxTokens, tcAvailable, tcBudget, ledgerVars, pb>>
  /\ UNCHANGED <<parseVars, runVars>>

\* a call of allocateTokenBudget(tcAvailable)
Allocate ==
  /\ ~tcBudget.done
  /\ tcBudget' = [done |-> TRUE, budget |-> allocateTokenBudget(tcAvailable)]
  /\ UNCHANGED <<encoding, tcText, tcMaxTokens, tcAvailable, tcTruncated, ledgerVars, pb>>
  /\ UNCHANGED <<parseVars, runVars>>

TokNext == Truncate \/ Allocate

SpecTok == TokInit /\ [][TokNext]_vars

(* ------------------------------------------------------------------ *)
(* Session: ledger operations                                            *)
(* ------------------------------------------------------------------ *)

\* context windows the model server may report (800 tokens are reserved)
ContextWindows == {830, 860}

\* one character per timestamp, so that every message has its own content
StampChar(t) == <<"1", "2", "3", "4", "5", "6", "7", "8", "9">>[t]

\* user queries
Queries == {Rep("q", 2), Rep("q", 23)}

\* lengths of the assistant responses the session records
ResponseLengths == {3, 30}

\* texts the summarization call may return (message.content || '')
Summaries == {<<>>, Rep("t", 12)}

Init ==
  /\ encoding \in BOOLEAN
  /\ tcText = <<>>
  /\ tcMaxTokens = 0
  /\ tcAvailable = 0
  /\ tcTruncated = [done |-> FALSE, text |-> <<>>]
  /\ tcBudget = [done |-> FALSE, budget |-> NoBudget]
  /\ contextWindow \in ContextWindows
  /\ recentMessagesCount \in 0..MaxKeep
  /\ history = clearedHistory
  /\ clock = 0
  /\ cm = CmIdle
  /\ cmLast = NoCall
  /\ pb = PbIdle
  /\ ParserIdle
  /\ RunIdle

\* processQuery, on completion: addMessage('user', query) then
\* addMessage('assistant', currentResponse)
RecordExchange ==
  /\ cm.pc = "idle"
  /\ pb.pc = "idle"
  /\ clock + 2 <= MaxMessages
  /\ \E query \in Queries, rl \in ResponseLengths :
       history' = addMessage(
                    addMessage(history, "user",
                               <<StampChar(clock + 1)>> \o query, clock + 1),
                    "assistant", Rep(StampChar(clock + 2), rl), clock + 2)
  /\ clock' = clock + 2
  /\ cmLast' = NoCall
  /\ UNCHANGED <<encoding, tokVars, contextWindow, recentMessagesCount, cm, pb>>
  /\ UNCHANGED <<parseVars, runVars>>

\* compressHistory(keepRecentCount) up to its await: either an early return
\* or the request to lmstudioClient.compress
CompressStart ==
  /\ cm.pc = "idle"
  /\ pb.pc = "idle"
  /\ LET k        == recentMessagesCount
         toKeep   == sliceTail(history.full, k)
         text     == formatMessagesForCompression(sliceHead(history.full, k))
         observed == [ k |-> k, before |-> history, requested |-> FALSE, sent |-> <<>>,
                       outcome |-> "returned", summary |-> <<>>, raised |-> FALSE ]
     IN IF compressReturnsEarly(history.full, k)
        THEN /\ cmLast' = observed
             /\ cm' = CmIdle
        ELSE /\ cmLast' = [observed EXCEPT !.requested = TRUE, !.sent = text,
                                           !.outcome = "awaiting"]
             /\ cm' = [pc |-> "awaiting", toKeep |-> toKeep, conversationText |-> text]
  /\ UNCHANGED <<encoding, tokVars, contextWindow, recentMessagesCount, history, clock, pb>>
  /\ UNCHANGED <<parseVars, runVars>>

\* lmstudioClient.compress resolves with a summary: the rest of the try block
CompressReturn ==
  /\ cm.pc = "awaiting"
  /\ \E compressed \in Summaries :
       /\ history' = compressSucceeded(history, cm.toKeep, compressed)
       /\ cmLast' = [cmLast EXCEPT !.outcome = "ok", !.summary = compressed]
  /\ cm' = CmIdle
  /\ UNCHANGED <<encoding, tokVars, contextWindow, recentMessagesCount, clock, pb>>
  /\ UNCHANGED <<parseVars, runVars>>

\* lmstudioClient.compress rejects: the catch block
CompressThrow ==
  /\ cm.pc = "awaiting"
  /\ LET r == compressFailed(history, cm.toKeep)
     IN /\ history' = r.ledger
        /\ cmLast' = [cmLast EXCEPT !.outcome = "error", !.raised = r.raised]
  /\ cm' = CmIdle
  /\ UNCHANGED <<encoding, tokVars, contextWindow, recentMessagesCount, clock, pb>>
  /\ UNCHANGED <<parseVars, runVars>>

\* the clear-history command: clearHistory()
ClearHistory ==
  /\ cm.pc = "idle"
  /\ pb.pc = "idle"
  /\ history # clearedHistory
  /\ history' = clearedHistory
  /\ cmLast' = NoCall
  /\ UNCHANGED <<encoding, tokVars, contextWindow, recentMessagesCount, clock, cm, pb>>
  /\ UNCHANGED <<parseVars, runVars>>

\* contents of the system prompt file read by buildSystemPrompt
SystemPrompts == {Rep("p", 10)}

\* contents of LMCODE.md handed to setCustomInstructions; <<>> when there is
\* none.  The project file is free text: one of them talks about relevant files.
CustomInstructions == {<<>>, RelevantFilesTag}

\* values of taskManager.getTaskListForPrompt()
TaskLists == {NoPendingTasks, OnePendingTask}

\* results of findRelevantFiles: the files searchFiles ranked and readFile loaded
FileSets ==
  LET f == [path |-> <<"f">>, content |-> Rep("x", 8)]
      g == [path |-> <<"g">>, content |-> Rep("y", 40)]
  IN {<<>>, <<f>>, <<f, g>>}

\* buildPrompt(userQuery) up to the safety check: budget, components, assembly
\* and the first measurement
BuildPrompt ==
  /\ cm.pc = "idle"
  /\ pb.pc = "idle"
  /\ \E userQuery \in Queries, systemPrompt \in SystemPrompts,
        customInstructions \in CustomInstructions, taskList \in TaskLists,
        relevantFiles \in FileSets, ulp \in {0, 1} :
       LET availableTokens == calculateAvailableTokens(contextWindow, 800)
           budget          == allocateTokenBudget(availableTokens)
           historyData     == getMessagesForPrompt(history,
                                budget.recentHistory + budget.compressedHistory,
                                recentMessagesCount, encoding, ulp)
           filesContent    == formatFileContents(relevantFiles, budget.fileContents,
                                                 encoding, ulp)
           systemContent   == systemContentOf(systemPrompt, customInstructions,
                                              taskList)
           messages        == assembleMessages(systemContent, historyData,
                                               filesContent, userQuery)
           actualTokens    == countMessagesTokens(messages, encoding)
       IN pb' = [ pc |-> IF actualTokens > availableTokens THEN "reduce" ELSE "return",
                  messages |-> messages,
                  assembled |-> messages,
                  actualTokens |-> actualTokens,
                  initialTokens |-> actualTokens,
                  availableTokens |-> availableTokens,
                  systemMessageCount |-> systemCount(messages),
                  systemContent |-> systemContent,
                  userQuery |-> userQuery,
                  filesContent |-> filesContent,
                  historyData |-> historyData,
                  metadata |-> [NoMetadata EXCEPT
                    !.availableTokens = availableTokens,
                    !.budget = budget,
                    !.fileCount = Len(relevantFiles),
                    !.historyMessageCount = Len(historyData.recentMessages),
                    !.hasCompressedHistory = (historyData.compressedHistory # <<>>)] ]
  /\ cmLast' = NoCall
  /\ UNCHANGED <<encoding, tokVars, contextWindow, recentMessagesCount, history, clock, cm>>
  /\ UNCHANGED <<parseVars, runVars>>

\* one pass of the reduction loop: the oldest conversation message is spliced
\* out and the prompt is measured again
DropOldest ==
  /\ pb.pc = "reduce"
  /\ reductionContinues(pb.messages, pb.actualTokens, pb.availableTokens,
                        pb.systemMessageCount)
  /\ LET messages == removeAt(pb.messages,
                              firstDroppable(pb.messages, pb.systemMessageCount))
     IN pb' = [pb EXCEPT !.messages = messages,
                         !.actualTokens = countMessagesTokens(messages, encoding)]
  /\ UNCHANGED <<encoding, tokVars, ledgerVars>>
  /\ UNCHANGED <<parseVars, runVars>>

\* the reduction loop ends: within budget, or nothing left that it may drop
ReductionEnds ==
  /\ pb.pc = "reduce"
  /\ ~reductionContinues(pb.messages, pb.actualTokens, pb.availableTokens,
                         pb.systemMessageCount)
  /\ pb' = [pb EXCEPT !.pc = "files"]
  /\ UNCHANGED <<encoding, tokVars, ledgerVars>>
  /\ UNCHANGED <<parseVars, runVars>>

\* still too large: the relevant-files system message is spliced out
DropFiles ==
  /\ pb.pc = "files"
  /\ pb.actualTokens > pb.availableTokens
  /\ filesMessage(pb.messages) # 0
  /\ LET messages == removeAt(pb.messages, filesMessage(pb.messages))
     IN pb' = [pb EXCEPT !.pc = "return",
                         !.messages = messages,
                         !.actualTokens = countMessagesTokens(messages, encoding)]
  /\ UNCHANGED <<encoding, tokVars, ledgerVars>>
  /\ UNCHANGED <<parseVars, runVars>>

\* within budget after the loop, or no relevant-files message to remove
KeepFiles ==
  /\ pb.pc = "files"
  /\ ~(pb.actualTokens > pb.availableTokens /\ filesMessage(pb.messages) # 0)
  /\ pb' = [pb EXCEPT !.pc = "return"]
  /\ UNCHANGED <<encoding, tokVars, ledgerVars>>
  /\ UNCHANGED <<parseVars, runVars>>

\* buildPrompt returns { messages, metadata }
PromptReturn ==
  /\ pb.pc = "return"
  /\ pb' = [pb EXCEPT !.pc = "returned",
                      !.metadata.totalTokens = pb.actualTokens,
                      !.metadata.wasReduced =
                         wasReduced(pb.actualTokens, pb.availableTokens)]
  /\ UNCHANGED <<encoding, tokVars, ledgerVars>>
  /\ UNCHANGED <<parseVars, runVars>>

\* processQuery hands the prompt to lmstudioClient.complete and is done with it
PromptConsumed ==
  /\ pb.pc = "returned"
  /\ pb' = PbIdle
  /\ UNCHANGED <<encoding, tokVars, ledgerVars>>
  /\ UNCHANGED <<parseVars, runVars>>

Next ==
  \/ RecordExchange
  \/ CompressStart
  \/ CompressReturn
  \/ CompressThrow
  \/ ClearHistory
  \/ BuildPrompt
  \/ DropOldest
  \/ ReductionEnds
  \/ DropFiles
  \/ KeepFiles
  \/ PromptReturn
  \/ PromptConsumed

Spec == Init /\ [][Next]_vars

\* the ledger after one more query of 23 characters and its response of 30
exchanged(h, now) ==
  addMessage(addMessage(h, "user", <<StampChar(now + 1)>> \o Rep("q", 23), now + 1),
             "assistant", Rep(StampChar(now + 2), 30), now + 2)

\* ledgers buildPrompt finds: an empty one, one and two exchanges, and two
\* messages with the summary of what preceded them
LadderLedgers ==
  { clearedHistory,
    exchanged(clearedHistory, 0),
    exchanged(exchanged(clearedHistory, 0), 2),
    [exchanged(clearedHistory, 2) EXCEPT !.compressed = Rep("t", 12)] }

\* a session in which buildPrompt is about to be called
LadderInit ==
  /\ encoding \in BOOLEAN
  /\ tcText = <<>>
  /\ tcMaxTokens = 0
  /\ tcAvailable = 0
  /\ tcTruncated = [done |-> FALSE, text |-> <<>>]
  /\ tcBudget = [done |-> FALSE, budget |-> NoBudget]
  /\ contextWindow \in ContextWindows
  /\ recentMessagesCount \in 0..MaxKeep
  /\ history \in LadderLedgers
  /\ clock = 4
  /\ cm = CmIdle
  /\ cmLast = NoCall
  /\ pb = PbIdle
  /\ ParserIdle
  /\ RunIdle

\* the steps of buildPrompt after the first measurement
Ladder == DropOldest \/ ReductionEnds \/ DropFiles \/ KeepFiles \/ PromptReturn

LadderNext == BuildPrompt \/ Ladder \/ PromptConsumed

\* buildPrompt is synchronous: once it is called, it runs to its return
SpecLadder == LadderInit /\ [][LadderNext]_vars /\ WF_vars(Ladder)

(* ------------------------------------------------------------------ *)
(* Action extractor: both grammars applied to bounded responses          *)
(* ------------------------------------------------------------------ *)

\* number of blocks in the text of a response
MaxBlocks == 2

\* number of function calls in a response
MaxCalls == 2

NewLine == <<"\n">>

\* <name>body</name>
Tagged(name, body) ==
  <<"<">> \o name \o <<">">> \o body \o <<"<", "/">> \o name \o <<">">>

\* the decimal digits of a natural number
RECURSIVE DigitsOf(_)
DigitsOf(n) ==
  IF n < 10 THEN <<Digits[n + 1]>>
  ELSE DigitsOf(n \div 10) \o <<Digits[(n % 10) + 1]>>

\* the texts of a list with ', ' between them
RECURSIVE Join(_)
Join(texts) ==
  IF texts = <<>> THEN <<>>
  ELSE IF Len(texts) = 1 THEN Head(texts)
  ELSE Head(texts) \o <<",", " ">> \o Join(Tail(texts))

\* the body of a JSON string
RECURSIVE escaped(_)
escaped(text) ==
  IF text = <<>> THEN <<>>
  ELSE (CASE Head(text) = "\"" -> <<"\\", "\"">>
          [] Head(text) = "\\" -> <<"\\", "\\">>
          [] Head(text) = "\n" -> <<"\\", "n">>
          [] OTHER -> <<Head(text)>>)
       \o escaped(Tail(text))

JsonString(text) == <<"\"">> \o escaped(text) \o <<"\"">>

JsonMember(key, value) == JsonString(key) \o <<":", " ">> \o value

JsonObject(members) == <<"{">> \o Join(members) \o <<"}">>

JsonArray(items) == <<"[">> \o Join(items) \o <<"]">>

\* an intent written as a tagged block, laid out as the system prompt shows
taggedBlock(i) ==
  CASE i.kind = "edit" ->
         Tagged(<<"f", "i", "l", "e", "_", "e", "d", "i", "t">>,
                NewLine \o Tagged(<<"p", "a", "t", "h">>, i.path)
                  \o NewLine \o Tagged(<<"o", "p", "e", "r", "a", "t", "i", "o", "n">>, <<"r", "e", "p", "l", "a", "c", "e">>)
                  \o NewLine \o Tagged(<<"o", "l", "d">>, i.oldText)
                  \o NewLine \o Tagged(<<"n", "e", "w">>, i.newText) \o NewLine)
    [] i.kind = "create" ->
         Tagged(<<"f", "i", "l", "e", "_", "c", "r", "e", "a", "t", "e">>,
                NewLine \o Tagged(<<"p", "a", "t", "h">>, i.path)
                  \o NewLine \o Tagged(<<"c", "o", "n", "t", "e", "n", "t">>, NewLine \o i.content \o NewLine)
                  \o NewLine)
    [] i.kind = "delete" ->
         Tagged(<<"f", "i", "l", "e", "_", "d", "e", "l", "e", "t", "e">>, NewLine \o Tagged(<<"p", "a", "t", "h">>, i.path) \o NewLine)
    [] i.kind = "task" ->
         Tagged(<<"t", "a", "s", "k", "_", "u", "p", "d", "a", "t", "e">>,
                NewLine
                  \o (IF i.status = <<"c", "o", "m", "p", "l", "e", "t", "e", "d">> THEN <<"-", " ", "D", "O", "N", "E", ":", " ">> ELSE <<"-", " ", "T", "O", "D", "O", ":", " ">>)
                  \o i.description \o NewLine)
    [] i.kind = "search" ->
         Tagged(<<"s", "e", "a", "r", "c", "h">>, NewLine \o Join(i.keywords) \o NewLine)
    [] i.kind = "read" ->
         Tagged(<<"r", "e", "a", "d", "_", "l", "i", "n", "e", "s">>,
                NewLine \o Tagged(<<"p", "a", "t", "h">>, i.path)
                  \o NewLine \o Tagged(<<"s", "t", "a", "r", "t">>, DigitsOf(i.startLine))
                  \o NewLine \o Tagged(<<"e", "n", "d">>, DigitsOf(i.endLine)) \o NewLine)

\* a function call of the response: { id, function: { name, arguments } }
ToolCall(name, arguments) ==
  [id |-> "call", function |-> [name |-> name, arguments |-> arguments]]

\* the same intent written as a function call, with the parameters the tool
\* definitions name
functionCall(i) ==
  CASE i.kind = "edit" ->
         ToolCall("edit_file", JsonObject(<<
           JsonMember(<<"p", "a", "t", "h">>, JsonString(i.path)),
           JsonMember(<<"o", "l", "d", "_", "t", "e", "x", "t">>, JsonString(i.oldText)),
           JsonMember(<<"n", "e", "w", "_", "t", "e", "x", "t">>, JsonString(i.newText)),
           JsonMember(<<"d", "e", "s", "c", "r", "i", "p", "t", "i", "o", "n">>, JsonString(i.description)) >>))
    [] i.kind = "create" ->
         ToolCall("create_file", JsonObject(<<
           JsonMember(<<"p", "a", "t", "h">>, JsonString(i.path)),
           JsonMember(<<"c", "o", "n", "t", "e", "n", "t">>, JsonString(i.content)),
           JsonMember(<<"d", "e", "s", "c", "r", "i", "p", "t", "i", "o", "n">>, JsonString(i.description)) >>))
    [] i.kind = "delete" ->
         ToolCall("delete_file", JsonObject(<<
           JsonMember(<<"p", "a", "t", "h">>, JsonString(i.path)),
           JsonMember(<<"r", "e", "a", "s", "o", "n">>, JsonString(i.description)) >>))
    [] i.kind = "task" ->
         ToolCall("update_task", JsonObject(<<
           JsonMember(<<"d", "e", "s", "c", "r", "i", "p", "t", "i", "o", "n">>, JsonString(i.description)),
           JsonMember(<<"s", "t", "a", "t", "u", "s">>, JsonString(i.status)) >>))
    [] i.kind = "search" ->
         ToolCall("search_code", JsonObject(<<
           JsonMember(<<"k", "e", "y", "w", "o", "r", "d", "s">>,
                      JsonArray([k \in 1..Len(i.keywords) |-> JsonString(i.keywords[k])])) >>))
    [] i.kind = "read" ->
         ToolCall("read_file_lines", JsonObject(<<
           JsonMember(<<"p", "a", "t", "h">>, JsonString(i.path)),
           JsonMember(<<"s", "t", "a", "r", "t", "_", "l", "i", "n", "e">>, DigitsOf(i.startLine)),
           JsonMember(<<"e", "n", "d", "_", "l", "i", "n", "e">>, DigitsOf(i.endLine)) >>))

\* one intent of each kind; task updates in both states a call can name
Intents ==
  { [NoIntent EXCEPT !.kind = "edit", !.path = <<"a", ".", "j", "s">>, !.oldText = <<"x">>,
                     !.newText = <<"y">>, !.description = <<"d">>],
    [NoIntent EXCEPT !.kind = "create", !.path = <<"a", ".", "j", "s">>, !.content = <<"x">>,
                     !.description = <<"d">>],
    [NoIntent EXCEPT !.kind = "delete", !.path = <<"a", ".", "j", "s">>, !.description = <<"d">>],
    [NoIntent EXCEPT !.kind = "task", !.description = <<"t">>, !.status = <<"p", "e", "n", "d", "i", "n", "g">>],
    [NoIntent EXCEPT !.kind = "task", !.description = <<"t">>, !.status = <<"c", "o", "m", "p", "l", "e", "t", "e", "d">>],
    [NoIntent EXCEPT !.kind = "search", !.keywords = <<<<"k">>, <<"m">>>>],
    [NoIntent EXCEPT !.kind = "read", !.path = <<"a", ".", "j", "s">>, !.startLine = 1,
                     !.endLine = 12] }

\* pieces of response text: blocks of every kind with plain and decorated
\* paths, a block no pattern knows, prose and a block that is never closed,
\* and a closed edit block without its <new> field
Blocks ==
  { <<"<", "f", "i", "l", "e", "_", "e", "d", "i", "t", ">", "<", "p", "a", "t", "h", ">", "a", ".", "j", "s", "<", "/", "p", "a", "t", "h", ">", "<", "o", "p", "e", "r", "a", "t", "i", "o", "n", ">", "r", "e", "p", "l", "a", "c", "e", "<", "/", "o", "p", "e", "r", "a", "t", "i", "o", "n", ">", "<", "o", "l", "d", ">", "x", "<", "/", "o", "l", "d", ">", "<", "n", "e", "w", ">", "y", "<", "/", "n", "e", "w", ">", "<", "/", "f", "i", "l", "e", "_", "e", "d", "i", "t", ">">>,
    <<"<", "f", "i", "l", "e", "_", "c", "r", "e", "a", "t", "e", ">", "\n", "<", "p", "a", "t", "h", ">", "-", "-", "-", " ", "b", ".", "j", "s", " ", "-", "-", "-", "<", "/", "p", "a", "t", "h", ">", "\n", "<", "c", "o", "n", "t", "e", "n", "t", ">", "\n", "z", "\n", "<", "/", "c", "o", "n", "t", "e", "n", "t", ">", "\n", "<", "/", "f", "i", "l", "e", "_", "c", "r", "e", "a", "t", "e", ">">>,
    <<"<", "f", "i", "l", "e", "_", "d", "e", "l", "e", "t", "e", ">", "<", "p", "a", "t", "h", ">", " ", "\"", "c", ".", "j", "s", "\"", " ", "<", "/", "p", "a", "t", "h", ">", "<", "/", "f", "i", "l", "e", "_", "d", "e", "l", "e", "t", "e", ">">>,
    <<"<", "f", "i", "l", "e", "_", "d", "e", "l", "e", "t", "e", ">", "<", "p", "a", "t", "h", ">", "\"", "-", "-", "-", " ", "d", " ", "-", "-", "-", "\"", "<", "/", "p", "a", "t", "h", ">", "<", "/", "f", "i", "l", "e", "_", "d", "e", "l", "e", "t", "e", ">">>,
    <<"<", "t", "a", "s", "k", "_", "u", "p", "d", "a", "t", "e", ">", "\n", "-", " ", "D", "O", "N", "E", ":", " ", "t", "\n", "-", " ", "u", "\n", "<", "/", "t", "a", "s", "k", "_", "u", "p", "d", "a", "t", "e", ">">>,
    <<"<", "q", "u", "e", "s", "t", "i", "o", "n", ">", "w", "h", "y", "?", "<", "/", "q", "u", "e", "s", "t", "i", "o", "n", ">", "<", "w", "e", "b", "_", "s", "e", "a", "r", "c", "h", ">", "q", "<", "/", "w", "e", "b", "_", "s", "e", "a", "r", "c", "h", ">">>,
    <<"<", "s", "e", "a", "r", "c", "h", ">", "k", ",", " ", "m", "<", "/", "s", "e", "a", "r", "c", "h", ">">>,
    <<"<", "R", "E", "A", "D", "_", "L", "I", "N", "E", "S", ">", "<", "p", "a", "t", "h", ">", "'", "a", ".", "j", "s", "'", "<", "/", "p", "a", "t", "h", ">", "<", "s", "t", "a", "r", "t", ">", "3", "<", "/", "s", "t", "a", "r", "t", ">", "<", "e", "n", "d", ">", "4", "0", "<", "/", "e", "n", "d", ">", "<", "/", "R", "E", "A", "D", "_", "L", "I", "N", "E", "S", ">">>,
    <<"o", "k", " ", "<", "f", "i", "l", "e", "_", "e", "d", "i", "t", ">", "<", "p", "a", "t", "h", ">", "a", ".", "j", "s", "<", "/", "p", "a", "t", "h", ">", "<", "o", "l", "d", ">", "x", "<", "/", "o", "l", "d", ">">>,
    <<"<", "f", "i", "l", "e", "_", "e", "d", "i", "t", ">", "\n", "<", "p", "a", "t", "h", ">", "e", ".", "j", "s", "<", "/", "p", "a", "t", "h", ">", "\n", "<", "o", "p", "e", "r", "a", "t", "i", "o", "n", ">", "r", "e", "p", "l", "a", "c", "e", "<", "/", "o", "p", "e", "r", "a", "t", "i", "o", "n", ">", "\n", "<", "o", "l", "d", ">", "x", "<", "/", "o", "l", "d", ">", "\n", "<", "/", "f", "i", "l", "e", "_", "e", "d", "i", "t", ">">> }

\* function calls: well-formed ones with plain and decorated paths, and
\* calls whose argument text is not JSON
Calls ==
  { ToolCall("edit_file",
             <<"{", "\"", "p", "a", "t", "h", "\"", ":", " ", "\"", "a", ".", "j", "s", "\"", ",", " ", "\"", "o", "l", "d", "_", "t", "e", "x", "t", "\"", ":", " ", "\"", "x", "\"", ",", " ", "\"", "n", "e", "w", "_", "t", "e", "x", "t", "\"", ":", " ", "\"", "y", "\"", ",", " ", "\"", "d", "e", "s", "c", "r", "i", "p", "t", "i", "o", "n", "\"", ":", " ", "\"", "d", "\"", "}">>),
    ToolCall("create_file", <<"{", "\"", "p", "a", "t", "h", "\"", ":", " ", "\"", "-", "-", "-", " ", "b", ".", "j", "s", " ", "-", "-", "-", "\"", ",", " ", "\"", "c", "o", "n", "t", "e", "n", "t", "\"", ":", " ", "\"", "z", "\\", "n", "\"", ",", " ", "\"", "d", "e", "s", "c", "r", "i", "p", "t", "i", "o", "n", "\"", ":", " ", "\"", "d", "\"", "}">>),
    ToolCall("read_file_lines", <<"{", "\"", "p", "a", "t", "h", "\"", ":", " ", "\"", " ", "a", ".", "j", "s", " ", "\"", ",", " ", "\"", "s", "t", "a", "r", "t", "_", "l", "i", "n", "e", "\"", ":", " ", "3", ",", " ", "\"", "e", "n", "d", "_", "l", "i", "n", "e", "\"", ":", " ", "4", "0", "}">>),
    ToolCall("update_task", <<"{", "\"", "d", "e", "s", "c", "r", "i", "p", "t", "i", "o", "n", "\"", ":", " ", "\"", "t", "\"", ",", " ", "\"", "s", "t", "a", "t", "u", "s", "\"", ":", " ", "\"", "c", "o", "m", "p", "l", "e", "t", "e", "d", "\"", "}">>),
    ToolCall("search_code", <<"{", "\"", "k", "e", "y", "w", "o", "r", "d", "s", "\"", ":", " ", "[", "\"", "k", "\"", ",", " ", "\"", "m", "\"", "]", "}">>),
    ToolCall("search_code", <<"{", "k", "e", "y", "w", "o", "r", "d", "s", ":", " ", "[", "k", "]", "}">>),
    ToolCall("delete_file", <<"{", "\"", "p", "a", "t", "h", "\"", ":", " ", "\"", "c", ".", "j", "s", "\"", ",", " ", "\"", "r", "e", "a", "s", "o", "n", "\"", ":", " ", "\"", "d", "\"">>) }

\* the texts of a list, one after the other
RECURSIVE Concat(_)
Concat(texts) == IF texts = <<>> THEN <<>> ELSE Head(texts) \o Concat(Tail(texts))

ParseInit ==
  /\ encoding = FALSE
  /\ tcText = <<>>
  /\ tcMaxTokens = 0
  /\ tcAvailable = 0
  /\ tcTruncated = [done |-> FALSE, text |-> <<>>]
  /\ tcBudget = [done |-> FALSE, budget |-> NoBudget]
  /\ LedgerIdle
  /\ \/ /\ intent \in Intents
        /\ response = [content |-> taggedBlock(intent),
                       tool_calls |-> <<functionCall(intent)>>]
     \/ /\ intent = NoIntent
        /\ \E n \in 0..MaxBlocks : \E blocks \in [1..n -> Blocks] :
             response = [content |-> Concat(blocks), tool_calls |-> <<>>]
     \/ /\ intent = NoIntent
        /\ \E n \in 1..MaxCalls : \E calls \in [1..n -> Calls] :
             response = [content |-> <<>>, tool_calls |-> calls]
  /\ parsed = [done |-> FALSE, value |-> NotParsed]
  /\ converted = NotConverted
  /\ answered = [done |-> FALSE, value |-> FALSE]
  /\ cleaned = NotCleaned
  /\ RunIdle

\* a call of parseResponse(response.content)
ParseResponse ==
  /\ ~parsed.done
  /\ parsed' = [done |-> TRUE, value |-> parseResponse(response.content)]
  /\ UNCHANGED <<encoding, tokVars, ledgerVars, pb, intent, response, converted, answered, cleaned>>
  /\ UNCHANGED runVars

\* then a call of convertToolCallsToActions(parseToolCalls(response))
ConvertToolCalls ==
  /\ answered.done
  /\ ~converted.done
  /\ LET toolCalls == parseToolCalls(response)
         result    == convertToolCallsToActions(toolCalls)
     IN converted' = [ done |-> TRUE, toolCalls |-> toolCalls,
                       actions |-> result.actions, raised |-> result.raised ]
  /\ UNCHANGED <<encoding, tokVars, ledgerVars, pb, intent, response, parsed, answered, cleaned>>
  /\ UNCHANGED runVars

\* then a call of hasActions(response.content)
HasActions ==
  /\ parsed.done
  /\ ~answered.done
  /\ answered' = [done |-> TRUE, value |-> hasActions(response.content)]
  /\ UNCHANGED <<encoding, tokVars, ledgerVars, pb, intent, response, parsed, converted, cleaned>>
  /\ UNCHANGED runVars

ParseNext == ParseResponse \/ ConvertToolCalls \/ HasActions

SpecParse == ParseInit /\ [][ParseNext]_vars

(* ------------------------------------------------------------------ *)
(* ResponseParser.cleanPath on raw paths                                 *)
(* ------------------------------------------------------------------ *)

\* largest number of parts of a raw path
MaxPathParts == 4

\* what a raw path is made of: a blank, the --- marker, the two quotes and a
\* file name
PathParts == { <<" ">>, Dashes, <<"\"">>, <<"'">>, <<"a", ".", "j", "s">> }

\* raw paths
RawPaths == UNION { {Concat(parts) : parts \in [1..n -> PathParts]} : n \in 0..MaxPathParts }

CleanInit ==
  /\ encoding = FALSE
  /\ tcText = <<>>
  /\ tcMaxTokens = 0
  /\ tcAvailable = 0
  /\ tcTruncated = [done |-> FALSE, text |-> <<>>]
  /\ tcBudget = [done |-> FALSE, budget |-> NoBudget]
  /\ LedgerIdle
  /\ intent = NoIntent
  /\ response = [content |-> <<>>, tool_calls |-> <<>>]
  /\ parsed = [done |-> FALSE, value |-> NotParsed]
  /\ converted = NotConverted
  /\ answered = [done |-> FALSE, value |-> FALSE]
  /\ \E path \in RawPaths : cleaned = [NotCleaned EXCEPT !.path = path]
  /\ RunIdle

\* cleanPath applied to the raw path, and then to what it returned
CleanPath ==
  /\ cleaned.calls < 2
  /\ LET result == cleanPath(IF cleaned.calls = 0 THEN cleaned.path ELSE cleaned.result)
     IN cleaned' = [cleaned EXCEPT !.calls = @ + 1,
                                   !.once = IF cleaned.calls = 0 THEN result ELSE @,
                                   !.result = result]
  /\ UNCHANGED <<encoding, tokVars, ledgerVars, pb, intent, response, parsed, converted,
                 answered, runVars>>

CleanNext == CleanPath

SpecClean == CleanInit /\ [][CleanNext]_vars

(* ------------------------------------------------------------------ *)
(* Query processing: processQuery and the model calls it awaits         *)
(* ------------------------------------------------------------------ *)

\* queries of one session
MaxQueries == 1

\* attempts of one model call: options.retries || 3
maxRetries == 3

\* an error of a request: error.code, error.response.status (0 when there
\* is no response) and error.message
RequestError(code, status, message) ==
  [code |-> code, status |-> status, message |-> message]

\* what axios rejects a request with: the connection is refused, it times
\* out, the server answers 400 or 500, the signal is aborted
Refused == RequestError("ECONNREFUSED", 0, "connect ECONNREFUSED")

TimedOut == RequestError("ETIMEDOUT", 0, "connect ETIMEDOUT")

BadRequest == RequestError("ERR_BAD_REQUEST", 400, "Request failed with status code 400")

ServerError == RequestError("ERR_BAD_RESPONSE", 500, "Request failed with status code 500")

Canceled == RequestError("ERR_CANCELED", 0, "canceled")

\* the response interceptor of the client: what the awaited post is rejected
\* with. new Error(message) has no code and no response.
interceptor(error) ==
  IF error.code = "ECONNREFUSED"
  THEN RequestError("none", 0, "Cannot connect to LMStudio")
  ELSE IF error.code \in {"ETIMEDOUT", "ECONNRESET"}
  THEN RequestError("none", 0, "Connection to LMStudio was interrupted")
  ELSE error

\* retryRequest, completeWithStreaming: 'Don't retry on certain errors'
doNotRetry(error) == error.code = "ECONNREFUSED" \/ error.status = 400

\* a backoff that does not grow
delayFixed(attempt) == 1000

\* Math.pow(2, attempt) * 1000
delay(attempt) == (2 ^ attempt) * 1000

\* the catch of complete: an error with a response is thrown as
\* new Error('LMStudio API error (status): ...')
completeThrows(error) ==
  IF error.status # 0 THEN RequestError("none", 0, "LMStudio API error") ELSE error

\* the one intent of a kind
IntentOf(kind) == CHOOSE i \in Intents : i.kind = kind

\* texts of a response: prose, an edit, a search followed by an edit, and a
\* request for lines
Contents ==
  { <<"o", "k">>,
    taggedBlock(IntentOf("edit")),
    taggedBlock(IntentOf("search")) \o taggedBlock(IntentOf("edit")),
    taggedBlock(IntentOf("read")) }

\* function calls of a response: a search, an edit
ToolCalls == { <<functionCall(IntentOf("search"))>>, <<functionCall(IntentOf("edit"))>> }

\* what complete may return for a call. A streamed completion is always
\* content: useStreaming = onProgress && (disableTools || !supportsTools),
\* and every call of processQuery passes onProgress.
Responses(call, supportsTools) ==
  [type : {"content"}, content : Contents, tool_calls : {<<>>}]
    \cup (IF supportsTools /\ call # "tools"
          THEN [ type : {"tool_calls"},
                 content : {<<>>, taggedBlock(IntentOf("edit"))},
                 tool_calls : ToolCalls ]
          ELSE {})

\* the query has ended: back to the prompt, the client keeps what it knows
\* of the model
Ended == [QIdle EXCEPT !.supportsTools = q.supportsTools]

\* what b.after becomes when event happens
noted(b, event) == IF b.cancelled # "none" THEN b.after \cup {event} ELSE b.after

\* lmstudioClient.complete(messages, options) up to its first request
complete(b, call, signal) ==
  [b EXCEPT !.pc = "request", !.call = call, !.attempt = 0, !.signal = signal,
            !.calls = @ + 1, !.after = noted(b, "call")]

\* processQuery: contextManager.addMessage('user', query), then
\* addMessage('assistant', currentResponse), up to the await of saveState.
\* shouldCompress and compressHistory in between are the session's
\* CompressStart.
SaveToHistory(b) ==
  /\ history' = addMessage(addMessage(history, "user", b.query, clock + 1),
                           "assistant", b.currentResponse, clock + 2)
  /\ clock' = clock + 2
  /\ q' = [b EXCEPT !.pc = "save"]

\* processQuery's own hasActions
hasActionsIn(actions) ==
  \/ Len(actions.fileEdits) > 0
  \/ Len(actions.fileCreates) > 0
  \/ Len(actions.fileDeletes) > 0
  \/ Len(actions.taskUpdates) > 0

\* processQuery from "Show actions": the actions are listed and the user is
\* asked to confirm them, or there are none and the exchange is recorded
ShowActions(b) ==
  IF hasActionsIn(b.parsed)
  THEN /\ q' = [b EXCEPT !.pc = "confirm", !.after = noted(b, "confirm")]
       /\ UNCHANGED <<history, clock>>
  ELSE SaveToHistory(b)

\* processQuery(query) up to the await of the first model call
QueryStart ==
  /\ q.pc = "idle"
  /\ clock < 2 * MaxQueries
  /\ \E query \in Queries :
       q' = complete([q EXCEPT !.query = query, !.before = history], "first", TRUE)
  /\ UNCHANGED <<encoding, tokVars, contextWindow, recentMessagesCount, history,
                 clock, cm, cmLast, pb, parseVars, ex, ix, rq, sc, ff>>

\* processQuery after the first response; firstParsed is
\* parseResponse(response.content)
FirstResponse(b, firstResponse, firstParsed) ==
  IF firstResponse.type = "tool_calls"
  THEN /\ q' = complete(
                 [b EXCEPT !.response = firstResponse,
                           !.requested =
                              \E i \in DOMAIN parseToolCalls(firstResponse) :
                                parseToolCalls(firstResponse)[i].name
                                  \in {"search_code", "read_file_lines"}],
                 "tools", FALSE)
       /\ UNCHANGED <<history, clock>>
  ELSE IF Len(firstParsed.searches) > 0 \/ Len(firstParsed.readLines) > 0
  THEN \E found \in BOOLEAN :
         \* performSearch returns null when nothing matches; handleReadLines
         \* always returns text; the follow-up is made `if (additionalContext)`
         IF (Len(firstParsed.searches) > 0 /\ found) \/ Len(firstParsed.readLines) > 0
         THEN /\ q' = complete([b EXCEPT !.response = firstResponse,
                                         !.currentResponse = firstResponse.content,
                                         !.parsed = firstParsed, !.from = "first",
                                         !.requested = TRUE],
                               "context", FALSE)
              /\ UNCHANGED <<history, clock>>
         ELSE ShowActions([b EXCEPT !.response = firstResponse,
                                    !.currentResponse = firstResponse.content,
                                    !.parsed = firstParsed, !.from = "first",
                                    !.requested = TRUE])
  ELSE ShowActions([b EXCEPT !.response = firstResponse,
                             !.currentResponse = firstResponse.content,
                             !.parsed = firstParsed, !.from = "first"])

\* processQuery after the response to the tool results; finalParsed is
\* parseResponse of its content
FinalResponse(b, finalResponse, finalParsed) ==
  ShowActions([b EXCEPT !.currentResponse = finalResponse.content,
                        !.parsed = finalParsed, !.from = "followUp"])

\* processQuery after the response to the additional context; textParsed is
\* parseResponse of its content, actions what convertToolCallsToActions
\* gives for its tool calls
FollowUpResponse(b, followUpResponse, textParsed, actions) ==
  ShowActions(
    [b EXCEPT !.currentResponse = followUpResponse.content,
              !.from = "followUp",
              !.parsed =
                 IF followUpResponse.type = "tool_calls" /\ ~actions.raised
                 THEN [ plainText   |-> Str(followUpResponse.content),
                        searches    |-> actions.actions.searches,
                        readLines   |-> actions.actions.readLines,
                        fileEdits   |-> actions.actions.fileEdits,
                        fileCreates |-> actions.actions.fileCreates,
                        fileDeletes |-> actions.actions.fileDeletes,
                        taskUpdates |-> actions.actions.taskUpdates ]
                 ELSE textParsed])

\* processQuery goes on with what complete returned
Responded(b, r, textParsed, actions) ==
  CASE q.call = "first" -> FirstResponse(b, r, textParsed)
    [] q.call = "tools" -> FinalResponse(b, r, textParsed)
    [] q.call = "context" -> FollowUpResponse(b, r, textParsed, actions)

\* the awaited request resolves: complete returns
Respond ==
  /\ q.pc = "request"
  /\ ~(q.signal /\ q.aborted)
  /\ \E r \in Responses(q.call, q.supportsTools) :
       Responded([q EXCEPT !.completed = @ + 1, !.after = noted(q, "response")],
                 r, parseResponse(r.content),
                 convertToolCallsToActions(parseToolCalls(r)))
  /\ UNCHANGED <<encoding, tokVars, contextWindow, recentMessagesCount,
                 cm, cmLast, pb, parseVars, ex, ix, rq, sc, ff>>

\* complete throws: the follow-up of a tool_calls response is inside a try
\* whose catch parses response.message?.content || ''; anything else reaches
\* the catch of processQuery
Thrown ==
  IF q.call = "tools"
  THEN ShowActions([q EXCEPT !.completed = @ + 1, !.failed = TRUE,
                             !.currentResponse = q.response.content,
                             !.parsed = parseResponse(q.response.content),
                             !.from = "first"])
  ELSE /\ q' = Ended
       /\ UNCHANGED <<history, clock>>

\* errors the request may be rejected with: the CanceledError of an aborted
\* signal, a refused connection, status 400 or status 500
Errors ==
  IF q.signal /\ q.aborted THEN {Canceled} ELSE {Refused, BadRequest, ServerError}

\* the awaited request is rejected: the catch of retryRequest and of
\* completeWithStreaming
Fail ==
  /\ q.pc = "request"
  /\ \E error \in Errors :
       IF doNotRetry(interceptor(error)) \/ q.attempt = maxRetries - 1
       THEN Thrown
       ELSE /\ q' = [q EXCEPT !.pc = "sleep"]
            /\ UNCHANGED <<history, clock>>
  /\ UNCHANGED <<encoding, tokVars, contextWindow, recentMessagesCount,
                 cm, cmLast, pb, parseVars, ex, ix, rq, sc, ff>>

\* the backoff is over: the next attempt. A request whose signal is aborted
\* is rejected before it is sent.
Retry ==
  /\ q.pc = "sleep"
  /\ q' = [q EXCEPT !.pc = "request", !.attempt = @ + 1,
                    !.after = IF q.signal /\ q.aborted THEN noted(q, "attempt")
                              ELSE noted(q, "request")]
  /\ UNCHANGED <<encoding, tokVars, ledgerVars, pb, parseVars, ex, ix, rq, sc, ff>>

\* setupCancellationListener: ESC on a terminal, abortController.abort()
Cancel ==
  /\ q.pc \in {"request", "sleep", "confirm"}
  /\ ~q.aborted
  /\ q' = [q EXCEPT !.aborted = TRUE,
                    !.cancelled = IF q.pc = "confirm" THEN "none" ELSE q.call]
  /\ UNCHANGED <<encoding, tokVars, ledgerVars, pb, parseVars, ex, ix, rq, sc, ff>>

\* the user answers 'Execute these actions?'; executeActions works on the
\* files and never throws
Confirm ==
  /\ q.pc = "confirm"
  /\ \E execute \in BOOLEAN : SaveToHistory(q)
  /\ UNCHANGED <<encoding, tokVars, contextWindow, recentMessagesCount,
                 cm, cmLast, pb, parseVars, ex, ix, rq, sc, ff>>

\* saveState returns or throws, the listener is removed
QueryReturn ==
  /\ q.pc = "save"
  /\ q' = Ended
  /\ UNCHANGED <<encoding, tokVars, ledgerVars, pb, parseVars, ex, ix, rq, sc, ff>>

QueryInit ==
  /\ encoding = FALSE
  /\ tcText = <<>>
  /\ tcMaxTokens = 0
  /\ tcAvailable = 0
  /\ tcTruncated = [done |-> FALSE, text |-> <<>>]
  /\ tcBudget = [done |-> FALSE, budget |-> NoBudget]
  /\ LedgerIdle
  /\ ParserIdle
  /\ \E supportsTools \in BOOLEAN : q = [QIdle EXCEPT !.supportsTools = supportsTools]
  /\ ex = ExIdle
  /\ ix = IxIdle
  /\ rq = RqIdle
  /\ sc = ScIdle
  /\ ff = FfIdle

QueryNext ==
  QueryStart \/ Respond \/ Fail \/ Retry \/ Cancel \/ Confirm \/ QueryReturn

SpecQuery == QueryInit /\ [][QueryNext]_vars

(* ------------------------------------------------------------------ *)
(* Action execution: executeActions, findFileInIndex, FileOperations    *)
(* ------------------------------------------------------------------ *)

\* file edits, file creates and file deletes of one response
MaxEdits == 2

MaxCreates == 1

MaxDeletes == 1

\* path.basename of a path that does not end in a separator
basename(filePath) ==
  LET slashes == {i \in 1..Len(filePath) : filePath[i] = "/"}
      last    == IF slashes = {} THEN 0 ELSE CHOOSE i \in slashes : \A j \in slashes : j <= i
  IN SubSeq(filePath, last + 1, Len(filePath))

\* resolvePath throws for a path that leaves the project root; the relative
\* paths here leave it exactly when they start with '../'
outsideRoot(filePath) == StartsWith(filePath, <<".", ".", "/">>)

\* FileOperations.fileExists(filePath)
fileExists(files, filePath) == ~outsideRoot(filePath) /\ filePath \in DOMAIN files

\* what a file operation returns: it threw or not, and the files after it
Threw(files) == [ok |-> FALSE, files |-> files]

Done(files) == [ok |-> TRUE, files |-> files]

\* FileOperations.writeFile(filePath, content)
writeFile(files, filePath, content) ==
  IF outsideRoot(filePath) THEN Threw(files)
  ELSE Done([p \in DOMAIN files \cup {filePath} |->
               IF p = filePath THEN content ELSE files[p]])

\* String.prototype.replace(oldText, newText): the first occurrence; the
\* new texts here hold no '$'
replaceFirst(content, oldText, newText) ==
  LET at == CHOOSE i \in 1..(Len(content) - Len(oldText) + 1) :
              /\ SubSeq(content, i, i + Len(oldText) - 1) = oldText
              /\ \A j \in 1..(i - 1) : SubSeq(content, j, j + Len(oldText) - 1) # oldText
  IN SubSeq(content, 1, at - 1) \o newText
       \o SubSeq(content, at + Len(oldText), Len(content))

\* FileOperations.editFile(filePath, oldText, newText)
editFile(files, filePath, oldText, newText) ==
  IF ~fileExists(files, filePath) THEN Threw(files)
  ELSE IF ~Includes(files[filePath], oldText) THEN Threw(files)
  ELSE writeFile(files, filePath, replaceFirst(files[filePath], oldText, newText))

\* FileOperations.createFile(filePath, content)
createFile(files, filePath, content) == writeFile(files, filePath, content)

\* FileOperations.deleteFile(filePath)
deleteFile(files, filePath) ==
  IF ~fileExists(files, filePath) THEN Threw(files)
  ELSE Done([p \in DOMAIN files \ {filePath} |-> files[p]])

\* the files of the index with the name of attemptedPath
matchesOf(index, attemptedPath) ==
  {relativePath \in index : basename(relativePath) = basename(attemptedPath)}

\* findFileInIndex(attemptedPath): the path, or null as <<>>
findFileInIndex(index, attemptedPath) ==
  LET matches == matchesOf(index, attemptedPath)
  IN IF Cardinality(matches) = 1 THEN CHOOSE relativePath \in matches : TRUE ELSE <<>>

\* executeActions: the path an edit or a delete is carried out on
actualPath(files, index, attempted) ==
  IF ~fileExists(files, attempted) /\ findFileInIndex(index, attempted) # <<>>
  THEN findFileInIndex(index, attempted)
  ELSE attempted

\* executeActions: the body of the try of one file edit
executeEdit(files, index, edit) ==
  IF ~fileExists(files, actualPath(files, index, edit.path.str)) THEN Threw(files)
  ELSE editFile(files, actualPath(files, index, edit.path.str), edit.oldText.str, edit.newText.str)

\* executeActions: the body of the try of one file create
executeCreate(files, create) == createFile(files, create.path.str, create.content.str)

\* executeActions: the body of the try of one file delete
executeDelete(files, index, del) == deleteFile(files, actualPath(files, index, del.path.str))

\* String.prototype.toLowerCase
toLowerCase(text) == [i \in 1..Len(text) |-> LowerChar(text[i])]

\* taskManager.completeTaskByDescription(description)
completeTaskByDescription(tasks, description) ==
  LET open == {i \in 1..Len(tasks) :
                 /\ tasks[i].status # "completed"
                 /\ Includes(toLowerCase(tasks[i].description), toLowerCase(description))}
  IN IF open = {} THEN tasks
     ELSE LET first == CHOOSE i \in open : \A j \in open : i <= j
          IN [tasks EXCEPT ![first].status = "completed"]

\* taskManager.addTask(description)
addTask(tasks, description) ==
  Append(tasks, [description |-> description, status |-> "pending"])

\* executeActions: the loop over parsed.taskUpdates
RECURSIVE executeTaskUpdates(_, _)
executeTaskUpdates(tasks, taskUpdates) ==
  IF taskUpdates = <<>> THEN tasks
  ELSE executeTaskUpdates(
         IF Head(taskUpdates).status = Str(<<"c", "o", "m", "p", "l", "e", "t", "e", "d">>)
         THEN completeTaskByDescription(tasks, Head(taskUpdates).description.str)
         ELSE addTask(tasks, Head(taskUpdates).description.str),
         Tail(taskUpdates))

\* the loops of executeActions in the order of the code
Loops == <<"edits", "creates", "deletes", "tasks">>

\* the loop after a loop
loopAfter(pc) == Loops[1 + CHOOSE k \in 1..3 : Loops[k] = pc]

\* the list a loop runs over
listOf(e, pc) ==
  CASE pc = "edits" -> e.parsed.fileEdits
    [] pc = "creates" -> e.parsed.fileCreates
    [] pc = "deletes" -> e.parsed.fileDeletes

\* executeActions reaches the loop pc: up to the first operation it awaits,
\* or through the task updates to spinner.succeed
RECURSIVE enter(_, _)
enter(e, pc) ==
  IF pc = "tasks"
  THEN [e EXCEPT !.pc = "done", !.i = 0, !.outcome = "succeeded",
                 !.tasks = executeTaskUpdates(e.tasks, e.parsed.taskUpdates)]
  ELSE IF Len(listOf(e, pc)) > 0 THEN [e EXCEPT !.pc = pc, !.i = 1]
  ELSE enter(e, loopAfter(pc))

\* the awaited operation succeeded: on to the next one
advance(e) ==
  IF e.i < Len(listOf(e, e.pc)) THEN [e EXCEPT !.i = @ + 1]
  ELSE enter(e, loopAfter(e.pc))

\* a catch that reports the failure and goes on with the next operation
skipAction(e) == advance(e)

\* the awaited operation threw: the catch of the loop throws the error again
\* ("Re-throw to stop execution"), the catch of executeActions reports it
stopExecution(e) == [e EXCEPT !.pc = "done", !.i = 0, !.outcome = "failed"]

\* what ex becomes after the operation at <<ex.pc, ex.i>> returned result
afterOperation(result, cause) ==
  IF result.ok
  THEN advance([ex EXCEPT !.files = result.files, !.log = Append(@, <<ex.pc, ex.i>>)])
  ELSE stopExecution([ex EXCEPT !.files = result.files, !.cause = cause])

\* the paths of the model: a.js at the root and in two directories, b.js,
\* and a path that leaves the root
PathA == <<"a", ".", "j", "s">>

PathS == <<"s", "/", "a", ".", "j", "s">>

PathL == <<"l", "/", "a", ".", "j", "s">>

Edits ==
  { [path |-> Str(PathA), oldText |-> Str(<<"x">>), newText |-> Str(<<"y">>)],
    [path |-> Str(PathA), oldText |-> Str(<<"y">>), newText |-> Str(<<"z">>)],
    [path |-> Str(PathL), oldText |-> Str(<<"x">>), newText |-> Str(<<"y">>)] }

Creates ==
  { [path |-> Str(<<"b", ".", "j", "s">>), content |-> Str(<<"n">>)],
    [path |-> Str(<<".", ".", "/", "x">>), content |-> Str(<<"n">>)] }

Deletes == { [path |-> Str(PathA)], [path |-> Str(PathS)] }

TaskUpdateLists ==
  { <<>>, << [description |-> Str(<<"t">>), status |-> Str(<<"p", "e", "n", "d", "i", "n", "g">>)] >> }

\* lists of at most n elements of a set
ListsOf(set, n) == UNION {[1..k -> set] : k \in 0..n}

\* the session before executeActions(parsed): files on disk, an index that
\* may name files that are gone, and the parsed response
ExecInit ==
  /\ encoding = FALSE
  /\ tcText = <<>>
  /\ tcMaxTokens = 0
  /\ tcAvailable = 0
  /\ tcTruncated = [done |-> FALSE, text |-> <<>>]
  /\ tcBudget = [done |-> FALSE, budget |-> NoBudget]
  /\ LedgerIdle
  /\ ParserIdle
  /\ q = QIdle
  /\ ix = IxIdle
  /\ rq = RqIdle
  /\ sc = ScIdle
  /\ ff = FfIdle
  /\ \E onDisk \in SUBSET {PathA, PathS, PathL},
        index \in {{}, {PathS}, {PathS, PathL}},
        fileEdits \in ListsOf(Edits, MaxEdits),
        fileCreates \in ListsOf(Creates, MaxCreates),
        fileDeletes \in ListsOf(Deletes, MaxDeletes),
        taskUpdates \in TaskUpdateLists :
       ex = [ExIdle EXCEPT
               !.files = [p \in onDisk |-> <<"x">>],
               !.index = index,
               !.parsed = [ fileEdits |-> fileEdits, fileCreates |-> fileCreates,
                            fileDeletes |-> fileDeletes, taskUpdates |-> taskUpdates ]]

\* why an edit or a delete of a path cannot be carried out: the path does
\* not exist and the index has no or several files of its name
causeOf(files, index, attempted) ==
  IF ~fileExists(files, attempted) /\ Cardinality(matchesOf(index, attempted)) # 1
  THEN "unresolved" ELSE "other"

\* executeActions(parsed) up to the first operation it awaits
ExecuteStart ==
  /\ ex.pc = "idle"
  /\ ex' = enter([ex EXCEPT !.before = ex.files], "edits")
  /\ UNCHANGED <<encoding, tokVars, ledgerVars, pb, parseVars, q, ix, rq, sc, ff>>

\* one turn of the loop over parsed.fileEdits
ExecuteEdit ==
  /\ ex.pc = "edits"
  /\ LET edit == ex.parsed.fileEdits[ex.i]
     IN ex' = afterOperation(executeEdit(ex.files, ex.index, edit),
                             causeOf(ex.files, ex.index, edit.path.str))
  /\ UNCHANGED <<encoding, tokVars, ledgerVars, pb, parseVars, q, ix, rq, sc, ff>>

\* one turn of the loop over parsed.fileCreates
ExecuteCreate ==
  /\ ex.pc = "creates"
  /\ ex' = afterOperation(executeCreate(ex.files, ex.parsed.fileCreates[ex.i]), "other")
  /\ UNCHANGED <<encoding, tokVars, ledgerVars, pb, parseVars, q, ix, rq, sc, ff>>

\* one turn of the loop over parsed.fileDeletes
ExecuteDelete ==
  /\ ex.pc = "deletes"
  /\ LET del == ex.parsed.fileDeletes[ex.i]
     IN ex' = afterOperation(executeDelete(ex.files, ex.index, del),
                             causeOf(ex.files, ex.index, del.path.str))
  /\ UNCHANGED <<encoding, tokVars, ledgerVars, pb, parseVars, q, ix, rq, sc, ff>>

ExecNext == ExecuteStart \/ ExecuteEdit \/ ExecuteCreate \/ ExecuteDelete

SpecExec == ExecInit /\ [][ExecNext]_vars

(* ------------------------------------------------------------------ *)
(* Codebase index: searchFiles, readLineRange,                           *)
(* loadFilesFromSearchResults                                            *)
(* ------------------------------------------------------------------ *)

\* the elements of a list
Range(list) == {list[i] : i \in DOMAIN list}

\* number of files in the index
MaxFiles == 3

\* largest maxResults searchFiles is given
MaxResults == 2

\* Array.prototype.slice(0, n) for n >= 0
sliceTo(list, n) == SubSeq(list, 1, Min(n, Len(list)))

\* the loops over file.functions, file.classes and file.imports: weight for
\* every name that includes the query
RECURSIVE addMatches(_, _, _)
addMatches(names, lowerQuery, weight) ==
  IF names = <<>> THEN 0
  ELSE (IF Includes(toLowerCase(Head(names)), lowerQuery) THEN weight ELSE 0)
         + addMatches(Tail(names), lowerQuery, weight)

\* a score that counts the functions and the classes of a file once
scoreOfAny(file, lowerQuery) ==
  (IF Includes(toLowerCase(file.relativePath), lowerQuery) THEN 10 ELSE 0)
    + Min(5, addMatches(file.functions, lowerQuery, 5))
    + Min(5, addMatches(file.classes, lowerQuery, 5))
    + addMatches(file.imports, lowerQuery, 2)

\* searchFiles: the score of one file
scoreOf(file, lowerQuery) ==
  (IF Includes(toLowerCase(file.relativePath), lowerQuery) THEN 10 ELSE 0)
    + addMatches(file.functions, lowerQuery, 5)
    + addMatches(file.classes, lowerQuery, 5)
    + addMatches(file.imports, lowerQuery, 2)

\* searchFiles: results, the files that score above zero, in index order
RECURSIVE scored(_, _)
scored(files, lowerQuery) ==
  IF files = <<>> THEN <<>>
  ELSE LET score == scoreOf(Head(files), lowerQuery)
       IN (IF score > 0 THEN <<[file |-> Head(files), key |-> score]>> ELSE <<>>)
            \o scored(Tail(files), lowerQuery)

\* Array.prototype.sort((a, b) => b.key - a.key): the larger key first, equal
\* keys in the order they had
RECURSIVE sortInto(_, _)
sortInto(sorted, rest) ==
  IF rest = <<>> THEN sorted
  ELSE LET entry  == Head(rest)
           before == SelectSeq(sorted, LAMBDA e : e.key >= entry.key)
           after  == SelectSeq(sorted, LAMBDA e : e.key < entry.key)
       IN sortInto(before \o <<entry>> \o after, Tail(rest))

sortDescending(entries) == sortInto(<<>>, entries)

\* results.map(r => r.file)
filesOf(entries) == [i \in DOMAIN entries |-> entries[i].file]

\* searchFiles: topResults
topResults(files, query, maxResults) ==
  filesOf(sliceTo(sortDescending(scored(files, toLowerCase(query))), maxResults))

\* searchFiles: sortedByDate.slice(0, maxResults)
mostRecent(files, maxResults) ==
  filesOf(sliceTo(sortDescending([i \in DOMAIN files |->
                                   [file |-> files[i], key |-> files[i].modified]]),
                  maxResults))

\* searchFiles without its fallback
searchFilesTopOnly(files, query, maxResults) == topResults(files, query, maxResults)

\* searchFiles(query, maxResults)
searchFiles(files, query, maxResults) ==
  LET top == topResults(files, query, maxResults)
  IN IF Len(top) = 0 /\ Len(files) > 0
     THEN (IF Len(files) <= maxResults THEN files ELSE mostRecent(files, maxResults))
     ELSE top

\* Array.prototype.join('\n')
RECURSIVE joinLines(_)
joinLines(lines) ==
  IF lines = <<>> THEN <<>>
  ELSE IF Len(lines) = 1 THEN Head(lines)
  ELSE Head(lines) \o <<"\n">> \o joinLines(Tail(lines))

\* what fs.readFile gave: the text of the file, or no file
Read(text) == [str |-> text]

NoFile == [missing |-> TRUE]

\* readLineRange(filePath, startLine, endLine) on what fs.readFile gives for
\* filePath: the object it returns, or the error it throws
readLineRange(content, startLine, endLine) ==
  IF content = NoFile THEN [raised |-> TRUE, error |-> "ENOENT"]
  ELSE LET lines == Split(content.str, {"\n"})
           start == Max(0, startLine - 1)
           end   == Min(Len(lines) - 1, endLine - 1)
       IN IF start > end \/ start >= Len(lines)
          THEN [raised |-> TRUE, error |-> "Invalid line range"]
          ELSE [ raised     |-> FALSE,
                 startLine  |-> start + 1,
                 endLine    |-> end + 1,
                 totalLines |-> Len(lines),
                 content    |-> joinLines(SubSeq(lines, start + 1, end + 1)),
                 lines      |-> SubSeq(lines, start + 1, end + 1) ]

\* threshold of loadFilesFromSearchResults when the configuration has none
defaultSmallFileThreshold == 500

\* this.config.search?.smallFileThreshold || 500
smallFileThresholdOf(configured) ==
  IF Truthy(configured) THEN configured.num ELSE defaultSmallFileThreshold

\* content.split('\n').length
lineCountOf(text) == Cardinality({i \in DOMAIN text : text[i] = "\n"}) + 1

\* the entry of a file that was read, with a file of threshold lines taken
\* for a large one
loadedBelow(result, text, threshold) ==
  LET lineCount == lineCountOf(text)
  IN IF lineCount < threshold
     THEN [ relativePath |-> result.relativePath, content |-> text,
            lineCount |-> lineCount, loadedCompletely |-> TRUE,
            message |-> <<"C", "o", "m", "p", "l", "e", "t", "e", " ", "f", "i", "l", "e", " ", "(">> \o DigitsOf(lineCount) \o <<" ", "l", "i", "n", "e", "s", ")">> ]
     ELSE [ relativePath |-> result.relativePath,
            lineCount |-> lineCount, loadedCompletely |-> FALSE,
            matches |-> result.matches,
            message |-> <<"L", "a", "r", "g", "e", " ", "f", "i", "l", "e", " ", "(">> \o DigitsOf(lineCount)
                          \o <<" ", "l", "i", "n", "e", "s", ")", " ", "-", " ", "u", "s", "e", " ", "<", "r", "e", "a", "d", "_", "l", "i", "n", "e", "s", ">", " ", "t", "o", " ", "l", "o", "a", "d", " ", "s", "p", "e", "c", "i", "f", "i", "c", " ", "s", "e", "c", "t", "i", "o", "n", "s">> ]

\* loadFilesFromSearchResults: the entry pushed for a file that was read
loaded(result, text, threshold) ==
  LET lineCount == lineCountOf(text)
  IN IF lineCount <= threshold
     THEN [ relativePath |-> result.relativePath, content |-> text,
            lineCount |-> lineCount, loadedCompletely |-> TRUE,
            message |-> <<"C", "o", "m", "p", "l", "e", "t", "e", " ", "f", "i", "l", "e", " ", "(">> \o DigitsOf(lineCount) \o <<" ", "l", "i", "n", "e", "s", ")">> ]
     ELSE [ relativePath |-> result.relativePath,
            lineCount |-> lineCount, loadedCompletely |-> FALSE,
            matches |-> result.matches,
            message |-> <<"L", "a", "r", "g", "e", " ", "f", "i", "l", "e", " ", "(">> \o DigitsOf(lineCount)
                          \o <<" ", "l", "i", "n", "e", "s", ")", " ", "-", " ", "u", "s", "e", " ", "<", "r", "e", "a", "d", "_", "l", "i", "n", "e", "s", ">", " ", "t", "o", " ", "l", "o", "a", "d", " ", "s", "p", "e", "c", "i", "f", "i", "c", " ", "s", "e", "c", "t", "i", "o", "n", "s">> ]

\* loadFilesFromSearchResults(searchResults), contents[i] being what
\* fs.readFile gives for searchResults[i]: a file that cannot be read is
\* left out
RECURSIVE loadFrom(_, _, _)
loadFrom(searchResults, contents, threshold) ==
  IF searchResults = <<>> THEN <<>>
  ELSE (IF Head(contents) = NoFile THEN <<>>
        ELSE <<loaded(Head(searchResults), Head(contents).str, threshold)>>)
         \o loadFrom(Tail(searchResults), Tail(contents), threshold)

loadFilesFromSearchResults(searchResults, contents, configured) ==
  loadFrom(searchResults, contents, smallFileThresholdOf(configured))

\* a file of the index: { relativePath, functions, classes, imports, modified },
\* modified as a number of days
FileInfo(relativePath, functions, classes, imports, modified) ==
  [ relativePath |-> relativePath, functions |-> functions, classes |-> classes,
    imports |-> imports, modified |-> modified ]

\* files that can be in the index: two functions that name the query, a
\* class and an import that name it, a path that names it, and two files
\* that name nothing, one as recent as the first
IndexedFiles ==
  { FileInfo(<<"a", ".", "j", "s">>, <<<<"c", "o", "n", "n", "e", "c", "t", "T", "o", "S", "e", "r", "v", "e", "r">>, <<"r", "e", "c", "o", "n", "n", "e", "c", "t">>>>, <<>>, <<<<"n", "e", "t">>>>, 3),
    FileInfo(<<"b", ".", "j", "s">>, <<>>, <<<<"C", "o", "n", "n", "e", "c", "t", "o", "r">>>>, <<<<".", "/", "c", "o", "n", "n", "e", "c", "t">>>>, 2),
    FileInfo(<<"s", "r", "c", "/", "c", "o", "n", "n", "e", "c", "t", ".", "j", "s">>, <<<<"o", "p", "e", "n">>>>, <<>>, <<>>, 1),
    FileInfo(<<"c", ".", "j", "s">>, <<<<"m", "a", "i", "n">>>>, <<>>, <<>>, 3),
    FileInfo(<<"d", ".", "j", "s">>, <<>>, <<>>, <<>>, 0) }

\* queries: one that files name, in both cases, one that one function
\* names, one that every path names and one that nothing names
SearchQueries == {<<"c", "o", "n", "n", "e", "c", "t">>, <<"C", "o", "n", "n", "e", "c", "t">>, <<"s", "e", "r", "v", "e", "r">>, <<"j", "s">>, <<"z", "z">>}

\* largest line number readLineRange is given
MaxLine == 4

\* files readLineRange reads: three lines, two lines and a line end, one
\* line, nothing
FileTexts == {<<"a", "\n", "b", "\n", "c">>, <<"a", "\n", "b", "\n">>, <<"a">>, <<>>}

\* what is on disk at the path of an indexed file: 501 lines, 500 lines,
\* two lines, nothing since the file was indexed, and an empty file
onDisk(relativePath) ==
  CASE relativePath = <<"a", ".", "j", "s">> -> Read(Rep("\n", 500))
    [] relativePath = <<"b", ".", "j", "s">> -> Read(Rep("\n", 499))
    [] relativePath = <<"s", "r", "c", "/", "c", "o", "n", "n", "e", "c", "t", ".", "j", "s">> -> Read(<<"a", "\n", "b">>)
    [] relativePath = <<"c", ".", "j", "s">> -> NoFile
    [] OTHER -> Read(<<>>)

\* the result of searchFileContents for a file: one match with its snippet
SearchResult(file) ==
  [ relativePath |-> file.relativePath,
    matches |-> << [ keyword |-> <<"k">>, lineNumber |-> 1, startLine |-> 1,
                     endLine |-> 1, snippet |-> <<"k">> ] >>,
    totalMatches |-> 1 ]

\* config.search.smallFileThreshold: not set, 0, or a number of lines
Thresholds == {undefined, Num(0), Num(1), Num(2)}

\* the indexer after indexCodebase: some files, each indexed once
IndexInit ==
  /\ encoding = FALSE
  /\ tcText = <<>>
  /\ tcMaxTokens = 0
  /\ tcAvailable = 0
  /\ tcTruncated = [done |-> FALSE, text |-> <<>>]
  /\ tcBudget = [done |-> FALSE, budget |-> NoBudget]
  /\ LedgerIdle
  /\ ParserIdle
  /\ q = QIdle
  /\ ex = ExIdle
  /\ rq = RqIdle
  /\ sc = ScIdle
  /\ ff = FfIdle
  /\ \E n \in 0..MaxFiles : \E files \in [1..n -> IndexedFiles] :
       /\ \A i \in 1..n : \A j \in 1..n : files[i] = files[j] => i = j
       /\ ix = [IxIdle EXCEPT !.files = files]

\* a call of searchFiles(query, maxResults)
SearchFiles ==
  /\ ix.op = "none"
  /\ \E query \in SearchQueries, maxResults \in 1..MaxResults :
       ix' = [IxIdle EXCEPT !.files = ix.files, !.op = "searchFiles",
                            !.query = query, !.maxResults = maxResults,
                            !.result = [files |-> searchFiles(ix.files, query, maxResults)]]
  /\ UNCHANGED <<encoding, tokVars, ledgerVars, pb, parseVars, q, ex, rq, sc, ff>>

\* a call of readLineRange(filePath, startLine, endLine)
ReadLineRange ==
  /\ ix.op = "none"
  /\ \E content \in {Read(text) : text \in FileTexts} \cup {NoFile},
        startLine \in (-1)..MaxLine, endLine \in (-1)..MaxLine :
       ix' = [IxIdle EXCEPT !.files = ix.files, !.op = "readLineRange",
                            !.content = content, !.startLine = startLine,
                            !.endLine = endLine,
                            !.result = readLineRange(content, startLine, endLine)]
  /\ UNCHANGED <<encoding, tokVars, ledgerVars, pb, parseVars, q, ex, rq, sc, ff>>

\* a call of loadFilesFromSearchResults on the first results of a search of
\* the index, as performSearch makes it
LoadFilesFromSearchResults ==
  /\ ix.op = "none"
  /\ \E n \in 0..Min(MaxResults, Len(ix.files)), configured \in Thresholds :
       \E found \in [1..n -> Range(ix.files)] :
         /\ \A i \in 1..n : \A j \in 1..n : found[i] = found[j] => i = j
         /\ LET searchResults == [i \in 1..n |-> SearchResult(found[i])]
                contents      == [i \in 1..n |-> onDisk(found[i].relativePath)]
            IN ix' = [IxIdle EXCEPT
                        !.files = ix.files, !.op = "loadFilesFromSearchResults",
                        !.searchResults = searchResults, !.contents = contents,
                        !.smallFileThreshold = configured,
                        !.result = [files |-> loadFilesFromSearchResults(
                                                searchResults, contents, configured)]]
  /\ UNCHANGED <<encoding, tokVars, ledgerVars, pb, parseVars, q, ex, rq, sc, ff>>

IndexNext == SearchFiles \/ ReadLineRange \/ LoadFilesFromSearchResults

SpecIndex == IndexInit /\ [][IndexNext]_vars

(* ------------------------------------------------------------------ *)
(* Content search: extractFunctionContext, searchFileContents            *)
(* ------------------------------------------------------------------ *)

\* number of times the character occurs in the line
countChar(line, c) == Cardinality({j \in 1..Len(line) : line[j] = c})

\* function|class|def|void|int|bool|char|float|double|String|public|private|
\* protected|static|async
DeclarationWords ==
  { <<"f", "u", "n", "c", "t", "i", "o", "n">>,
    <<"c", "l", "a", "s", "s">>,
    <<"d", "e", "f">>,
    <<"v", "o", "i", "d">>,
    <<"i", "n", "t">>,
    <<"b", "o", "o", "l">>,
    <<"c", "h", "a", "r">>,
    <<"f", "l", "o", "a", "t">>,
    <<"d", "o", "u", "b", "l", "e">>,
    <<"S", "t", "r", "i", "n", "g">>,
    <<"p", "u", "b", "l", "i", "c">>,
    <<"p", "r", "i", "v", "a", "t", "e">>,
    <<"p", "r", "o", "t", "e", "c", "t", "e", "d">>,
    <<"s", "t", "a", "t", "i", "c">>,
    <<"a", "s", "y", "n", "c">> }

\* /^\s*(function|class|...|async)\s/.test(line)
startsDeclaration(line) ==
  LET text == TrimStart(line)
  IN \E word \in DeclarationWords :
       /\ IsPrefix(word, text)
       /\ Len(text) > Len(word)
       /\ text[Len(word) + 1] \in WhiteSpace

\* \w
WordChars ==
  { "a", "b", "c", "d", "e", "f", "g", "h", "i", "j", "k", "l", "m",
    "n", "o", "p", "q", "r", "s", "t", "u", "v", "w", "x", "y", "z",
    "A", "B", "C", "D", "E", "F", "G", "H", "I", "J", "K", "L", "M",
    "N", "O", "P", "Q", "R", "S", "T", "U", "V", "W", "X", "Y", "Z",
    "0", "1", "2", "3", "4", "5", "6", "7", "8", "9", "_" }

\* the characters \w+ takes at the head of the text
wordLength(text) ==
  CHOOSE n \in 0..Len(text) :
    /\ \A j \in 1..n : text[j] \in WordChars
    /\ n < Len(text) => text[n + 1] \notin WordChars

\* /^\s*\w+\s*\([^)]*\)\s*{?\s*$/.test(line)
looksLikeSignature(line) ==
  LET text  == TrimStart(line)
      n     == wordLength(text)
      after == TrimStart(SubSeq(text, n + 1, Len(text)))
  IN /\ n > 0
     /\ after # <<>>
     /\ Head(after) = "("
     /\ \E c \in 2..Len(after) :
          /\ after[c] = ")"
          /\ \A j \in 2..(c - 1) : after[j] # ")"
          /\ Trim(SubSeq(after, c + 1, Len(after))) \in {<<>>, <<"{">>}

\* extractFunctionContext: the loop that looks backwards for the start of
\* the block, i running down to lowest; line numbers count from 0 as in the code
RECURSIVE scanBack(_, _, _, _)
scanBack(lines, i, lowest, braceCount) ==
  IF i < lowest THEN [foundStart |-> FALSE, startLine |-> 0]
  ELSE LET line  == lines[i + 1]
           count == braceCount + countChar(line, "}") - countChar(line, "{")
       IN IF count < 0 \/ startsDeclaration(line) \/ looksLikeSignature(line)
          THEN [foundStart |-> TRUE, startLine |-> i]
          ELSE scanBack(lines, i - 1, lowest, count)

\* the forward loop ending at the first line after the hit that has a
\* closing brace, whatever the balance
RECURSIVE scanForwardAny(_, _, _, _, _, _)
scanForwardAny(lines, i, limit, lineNum, braceCount, endLine) ==
  IF ~(i < limit) THEN endLine
  ELSE LET line  == lines[i + 1]
           count == braceCount + countChar(line, "{") - countChar(line, "}")
       IN IF i > lineNum /\ Includes(line, <<"}">>)
          THEN i
          ELSE scanForwardAny(lines, i + 1, limit, lineNum, count, i)

\* extractFunctionContext: the loop that looks forward for the end of the
\* block, from i to limit; the value is endLine after the loop
RECURSIVE scanForward(_, _, _, _, _, _)
scanForward(lines, i, limit, lineNum, braceCount, endLine) ==
  IF ~(i < limit) THEN endLine
  ELSE LET line  == lines[i + 1]
           count == braceCount + countChar(line, "{") - countChar(line, "}")
       IN IF count = 0 /\ i > lineNum /\ Includes(line, <<"}">>)
          THEN i
          ELSE scanForward(lines, i + 1, limit, lineNum, count, i)

\* extractFunctionContext with a fallback window that starts a whole cap
\* before the hit, where the backward scan stopped
extractFunctionContextFromScan(lines, lineNum, maxLines) ==
  LET back      == scanBack(lines, lineNum, Max(0, lineNum - maxLines), 0)
      startLine == IF back.foundStart THEN back.startLine
                   ELSE Max(0, lineNum - maxLines)
      endLine   == scanForward(lines, startLine,
                               Min(Len(lines), startLine + maxLines), lineNum, 0, lineNum)
  IN [ startLine |-> startLine,
       endLine   |-> Min(endLine, startLine + maxLines - 1),
       content   |-> joinLines(SubSeq(lines, startLine + 1, endLine + 1)) ]

\* extractFunctionContext(lines, lineNum, maxLines)
extractFunctionContext(lines, lineNum, maxLines) ==
  LET back      == scanBack(lines, lineNum, Max(0, lineNum - maxLines), 0)
      startLine == IF back.foundStart THEN back.startLine
                   ELSE Max(0, lineNum - maxLines \div 2)
      endLine   == scanForward(lines, startLine,
                               Min(Len(lines), startLine + maxLines), lineNum, 0, lineNum)
  IN [ startLine |-> startLine,
       endLine   |-> Min(endLine, startLine + maxLines - 1),
       content   |-> joinLines(SubSeq(lines, startLine + 1, endLine + 1)) ]

\* this.config.search?.functionContextLines || 50
defaultFunctionContextLines == 50

\* this.config.search?.editContextLines || 25
defaultEditContextLines == 25

functionContextLinesOf(search) ==
  IF search # undefined /\ Truthy(search.functionContextLines)
  THEN search.functionContextLines.num ELSE defaultFunctionContextLines

editContextLinesOf(search) ==
  IF search # undefined /\ Truthy(search.editContextLines)
  THEN search.editContextLines.num ELSE defaultEditContextLines

\* lines.slice(startLine, endLine + 1).join('\n'), line numbers from 0
snippetOf(lines, startLine, endLine) ==
  joinLines(SubSeq(lines, startLine + 1, Min(endLine + 1, Len(lines))))

\* searchFileContents: snippetData for a hit at lineNum (from 0)
snippetData(lines, lineNum, keyword, contextLines, contextMode, search) ==
  IF contextMode = "function"
  THEN LET context == extractFunctionContext(lines, lineNum, functionContextLinesOf(search))
       IN [ startLine |-> context.startLine + 1, endLine |-> context.endLine + 1,
            lineNumber |-> lineNum + 1, keyword |-> keyword,
            snippet |-> context.content ]
  ELSE LET around    == IF contextMode = "extended" THEN editContextLinesOf(search)
                        ELSE contextLines
           startLine == Max(0, lineNum - around)
           endLine   == Min(Len(lines) - 1, lineNum + around)
       IN [ keyword |-> keyword, lineNumber |-> lineNum + 1,
            snippet |-> snippetOf(lines, startLine, endLine),
            startLine |-> startLine + 1, endLine |-> endLine + 1 ]

\* lines.forEach for one keyword, from line lineNum on
RECURSIVE matchesOfKeyword(_, _, _, _, _, _)
matchesOfKeyword(lines, lineNum, keyword, contextLines, contextMode, search) ==
  IF lineNum >= Len(lines) THEN <<>>
  ELSE (IF Includes(toLowerCase(lines[lineNum + 1]), toLowerCase(keyword))
        THEN <<snippetData(lines, lineNum, keyword, contextLines, contextMode, search)>>
        ELSE <<>>)
         \o matchesOfKeyword(lines, lineNum + 1, keyword, contextLines, contextMode, search)

\* for (const keyword of keywords)
RECURSIVE matchesOfKeywords(_, _, _, _, _)
matchesOfKeywords(lines, keywords, contextLines, contextMode, search) ==
  IF keywords = <<>> THEN <<>>
  ELSE matchesOfKeyword(lines, 0, Head(keywords), contextLines, contextMode, search)
         \o matchesOfKeywords(lines, Tail(keywords), contextLines, contextMode, search)

\* for (const file of this.index.files): the results before they are
\* sorted, contents[i] being what fs.readFile gives for files[i]
RECURSIVE searchedFiles(_, _, _, _, _, _)
searchedFiles(files, contents, keywords, contextLines, contextMode, search) ==
  IF files = <<>> THEN <<>>
  ELSE LET matches ==
             IF Head(contents) = NoFile THEN <<>>
             ELSE matchesOfKeywords(Split(Head(contents).str, {"\n"}), keywords,
                                    contextLines, contextMode, search)
       IN (IF Len(matches) > 0
           THEN <<[ file |-> [ relativePath |-> Head(files).relativePath,
                               matches |-> matches, totalMatches |-> Len(matches) ],
                    key |-> Len(matches) ]>>
           ELSE <<>>)
            \o searchedFiles(Tail(files), Tail(contents), keywords, contextLines,
                             contextMode, search)

\* searchFileContents(keywords, contextLines, contextMode)
searchFileContents(files, contents, keywords, contextLines, contextMode, search) ==
  filesOf(sortDescending(searchedFiles(files, contents, keywords, contextLines,
                                       contextMode, search)))

\* largest number of lines of a searched file
MaxSourceLines == 4

\* largest maxLines handed to extractFunctionContext
MaxCap == 4

\* largest contextLines handed to searchFileContents
MaxContextLines == 1

\* lines of a source file: a statement, a brace that closes, the head of a
\* function, an empty object, a definition
SourceLines ==
  { <<"k">>, <<"}">>, <<"f", "(", ")", " ", "{">>, <<"k", " ", "=", " ", "{", "}">>, <<"d", "e", "f", " ", "k">> }

\* source files as lists of lines
SourceFiles == UNION { [1..n -> SourceLines] : n \in 1..MaxSourceLines }

\* keywords searched for
KeywordLists == { <<<<"k">>>>, <<<<"K">>, <<"}">>>> }

\* config.search: not set, or both context sizes set
SearchConfigs ==
  { undefined, [functionContextLines |-> Num(2), editContextLines |-> Num(1)] }

\* what is on disk at the path of the second indexed file: two hits
secondFile == Read(<<"k", "\n", "k">>)

\* the indexer with one or two files indexed
SnippetInit ==
  /\ encoding = FALSE
  /\ tcText = <<>>
  /\ tcMaxTokens = 0
  /\ tcAvailable = 0
  /\ tcTruncated = [done |-> FALSE, text |-> <<>>]
  /\ tcBudget = [done |-> FALSE, budget |-> NoBudget]
  /\ LedgerIdle
  /\ ParserIdle
  /\ q = QIdle
  /\ ex = ExIdle
  /\ rq = RqIdle
  /\ sc = ScIdle
  /\ ff = FfIdle
  /\ \E n \in 1..2 : \E files \in [1..n -> IndexedFiles] :
       /\ files[1].relativePath = <<"a", ".", "j", "s">>
       /\ n = 2 => files[2].relativePath = <<"b", ".", "j", "s">>
       /\ ix = [IxIdle EXCEPT !.files = files]

\* a call of extractFunctionContext(lines, lineNum, maxLines)
ExtractFunctionContext ==
  /\ ix.op = "none"
  /\ Len(ix.files) = 1
  /\ \E lines \in SourceFiles, maxLines \in 1..MaxCap :
       \E lineNum \in 0..(Len(lines) - 1) :
         ix' = [IxIdle EXCEPT
                  !.files = ix.files, !.op = "extractFunctionContext",
                  !.args = [lines |-> lines, lineNum |-> lineNum, maxLines |-> maxLines],
                  !.result = extractFunctionContext(lines, lineNum, maxLines)]
  /\ UNCHANGED <<encoding, tokVars, ledgerVars, pb, parseVars, q, ex, rq, sc, ff>>

\* a call of searchFileContents(keywords, contextLines, contextMode)
SearchFileContents ==
  /\ ix.op = "none"
  /\ \E lines \in SourceFiles, keywords \in KeywordLists,
        contextLines \in 0..MaxContextLines,
        contextMode \in {"simple", "extended", "function"}, search \in SearchConfigs :
       LET contents == [i \in 1..Len(ix.files) |->
                          IF i = 1 THEN Read(joinLines(lines)) ELSE secondFile]
       IN ix' = [IxIdle EXCEPT
                   !.files = ix.files, !.op = "searchFileContents",
                   !.args = [ contents |-> contents, keywords |-> keywords,
                              contextLines |-> contextLines,
                              contextMode |-> contextMode, search |-> search ],
                   !.result = [files |-> searchFileContents(ix.files, contents, keywords,
                                           contextLines, contextMode, search)]]
  /\ UNCHANGED <<encoding, tokVars, ledgerVars, pb, parseVars, q, ex, rq, sc, ff>>

SnippetNext == ExtractFunctionContext \/ SearchFileContents

SpecSnippets == SnippetInit /\ [][SnippetNext]_vars

(* ------------------------------------------------------------------ *)
(* Index maintenance: buildIndex, parseFile, updateIndex                 *)
(* ------------------------------------------------------------------ *)

\* latest modification time of a file on disk
MaxModified == 1

\* the files under the root that the scan includes, in the order readdir
\* lists them
ProjectPaths == << <<"a", ".", "j", "s">>, <<"b", ".", "j", "s">>, <<"l", "i", "b", "/", "c", ".", "j", "s">> >>

\* what can be at a path: nothing, or a file with its modification time and
\* whether its content can be read
DiskFiles == {NoFile} \cup [modified : 1..MaxModified, readable : BOOLEAN]

\* path.resolve(this.rootPath, filePath) for a path under the root, written
\* from the root: a leading "./" goes
resolve(filePath) ==
  IF Len(filePath) >= 2 /\ filePath[1] = "." /\ filePath[2] = "/"
  THEN SubSeq(filePath, 3, Len(filePath))
  ELSE filePath

\* _findAllFiles(this.rootPath): the included files there are
findAllFiles(disk) ==
  SelectSeq(ProjectPaths, LAMBDA file : disk[file] # NoFile)

\* parseFile(filePath), stats what fs.stat gives and readable whether
\* fileOps.readFile gives the content: the fileInfo it returns, or raised when
\* fs.stat throws
parseFile(filePath, stats, readable) ==
  IF stats = NoFile THEN [raised |-> TRUE, error |-> "ENOENT"]
  ELSE [ raised |-> FALSE,
         fileInfo |-> [ path |-> filePath, modified |-> stats.modified,
                        parseError |-> ~readable ] ]

\* the list without the entries of the path
withoutPath(files, absolutePath) ==
  SelectSeq(files, LAMBDA f : f.path # absolutePath)

\* an update that drops no entry
updateIndexOnto(files, filePath, stats, readable) ==
  LET fileInfo == parseFile(resolve(filePath), stats, readable)
  IN IF fileInfo.raised THEN files ELSE Append(files, fileInfo.fileInfo)

\* updateIndex(filePath): this.index.files afterwards
updateIndex(files, filePath, stats, readable) ==
  LET absolutePath == resolve(filePath)
      fileInfo     == parseFile(absolutePath, stats, readable)
  IN IF fileInfo.raised
     THEN withoutPath(files, absolutePath)
     ELSE Append(withoutPath(files, absolutePath), fileInfo.fileInfo)

\* paths updateIndex is given
UpdatedPaths == { <<"a", ".", "j", "s">>, <<".", "/", "a", ".", "j", "s">>, <<"b", ".", "j", "s">>, <<"l", "i", "b", "/", "c", ".", "j", "s">> }

\* the reads parseFile can see of what is at a path: the content is read after
\* the await of fs.stat, and can be gone or unreadable by then
ReadsOf(stats) == IF stats = NoFile THEN {FALSE} ELSE {stats.readable, FALSE}

\* no call of buildIndex is under way
IndexerFree == ix.op # "buildIndex" \/ ix.result # [none |-> TRUE]

\* the indexer of a project that was not indexed yet
MaintainInit ==
  /\ encoding = FALSE
  /\ tcText = <<>>
  /\ tcMaxTokens = 0
  /\ tcAvailable = 0
  /\ tcTruncated = [done |-> FALSE, text |-> <<>>]
  /\ tcBudget = [done |-> FALSE, budget |-> NoBudget]
  /\ LedgerIdle
  /\ ParserIdle
  /\ q = QIdle
  /\ ex = ExIdle
  /\ rq = RqIdle
  /\ sc = ScIdle
  /\ ff = FfIdle
  /\ \E disk \in [Range(ProjectPaths) -> DiskFiles] :
       ix = [IxIdle EXCEPT !.disk = disk]

\* a file under the root is written, removed or made unreadable; the call
\* that has returned is not kept any longer
DiskChanges ==
  /\ \E file \in Range(ProjectPaths), d \in DiskFiles :
       /\ d # ix.disk[file]
       /\ ix' = IF IndexerFree
                THEN [IxIdle EXCEPT !.files = ix.files,
                                    !.disk = [ix.disk EXCEPT ![file] = d]]
                ELSE [ix EXCEPT !.disk[file] = d]
  /\ UNCHANGED <<encoding, tokVars, ledgerVars, pb, parseVars, q, ex, rq, sc, ff>>

\* buildIndex, to its loop: the scan, and the list emptied
BuildIndex ==
  /\ IndexerFree
  /\ ix' = [ix EXCEPT !.op = "buildIndex", !.files = <<>>,
                      !.args = [files |-> findAllFiles(ix.disk), i |-> 0],
                      !.result = [none |-> TRUE]]
  /\ UNCHANGED <<encoding, tokVars, ledgerVars, pb, parseVars, q, ex, rq, sc, ff>>

\* one round of the loop of buildIndex: the file parsed and pushed, or
\* skipped when parseFile throws
BuildIndexFile ==
  /\ ix.op = "buildIndex"
  /\ ix.result = [none |-> TRUE]
  /\ ix.args.i < Len(ix.args.files)
  /\ LET file == ix.args.files[ix.args.i + 1]
     IN \E readable \in ReadsOf(ix.disk[file]) :
          LET fileInfo == parseFile(file, ix.disk[file], readable)
          IN ix' = [ix EXCEPT
                      !.files = IF fileInfo.raised THEN @ ELSE Append(@, fileInfo.fileInfo),
                      !.args.i = @ + 1]
  /\ UNCHANGED <<encoding, tokVars, ledgerVars, pb, parseVars, q, ex, rq, sc, ff>>

\* the loop of buildIndex is over: lastIndexed is set and the call returns
BuildIndexReturns ==
  /\ ix.op = "buildIndex"
  /\ ix.result = [none |-> TRUE]
  /\ ix.args.i = Len(ix.args.files)
  /\ ix' = [ix EXCEPT !.result = [indexed |-> Len(ix.files)]]
  /\ UNCHANGED <<encoding, tokVars, ledgerVars, pb, parseVars, q, ex, rq, sc, ff>>

\* a call of updateIndex(filePath)
UpdateIndex ==
  /\ IndexerFree
  /\ \E filePath \in UpdatedPaths :
       LET stats == ix.disk[resolve(filePath)]
       IN \E readable \in ReadsOf(stats) :
            ix' = [ix EXCEPT
                     !.op = "updateIndex",
                     !.files = updateIndex(@, filePath, stats, readable),
                     !.args = [ filePath |-> filePath,
                                had |-> \E k \in 1..Len(ix.files) :
                                          ix.files[k].path = resolve(filePath) ],
                     !.result = [done |-> TRUE]]
  /\ UNCHANGED <<encoding, tokVars, ledgerVars, pb, parseVars, q, ex, rq, sc, ff>>

MaintainNext ==
  DiskChanges \/ BuildIndex \/ BuildIndexFile \/ BuildIndexReturns \/ UpdateIndex

SpecMaintain == MaintainInit /\ [][MaintainNext]_vars

(* ------------------------------------------------------------------ *)
(* Model client: the attempts of one call of complete                    *)
(* ------------------------------------------------------------------ *)

\* the errors a request is rejected with
RequestErrors == {Refused, TimedOut, BadRequest, ServerError, Canceled}

\* the client with its context window set, before a call of complete
ClientInit ==
  /\ encoding = FALSE
  /\ tcText = <<>>
  /\ tcMaxTokens = 0
  /\ tcAvailable = 0
  /\ tcTruncated = [done |-> FALSE, text |-> <<>>]
  /\ tcBudget = [done |-> FALSE, budget |-> NoBudget]
  /\ LedgerIdle
  /\ ParserIdle
  /\ RunIdle

\* complete(messages, options) up to its first request, through
\* completeWithStreaming or through retryRequest
CompleteCall ==
  /\ rq.pc = "idle"
  /\ \E useStreaming \in BOOLEAN :
       rq' = [RqIdle EXCEPT !.pc = "request", !.streaming = useStreaming, !.sent = 1]
  /\ UNCHANGED <<encoding, tokVars, ledgerVars, pb, parseVars, q, ex, ix, sc, ff>>

\* the awaited post is rejected: the catch of retryRequest and of
\* completeWithStreaming, then the catch of complete when they throw
RequestRejected ==
  /\ rq.pc = "request"
  /\ \E error \in RequestErrors :
       LET caught == interceptor(error)
           failed == [rq EXCEPT !.errors = Append(@, error)]
       IN IF doNotRetry(caught) \/ ~(rq.attempt < maxRetries - 1)
          THEN rq' = [failed EXCEPT !.pc = "done", !.outcome = "thrown",
                                    !.thrown = completeThrows(caught)]
          ELSE rq' = [failed EXCEPT !.pc = "sleep", !.waits = Append(@, delay(rq.attempt))]
  /\ UNCHANGED <<encoding, tokVars, ledgerVars, pb, parseVars, q, ex, ix, sc, ff>>

\* sleep(delay) is over: the next turn of the loop sends the request again
BackoffOver ==
  /\ rq.pc = "sleep"
  /\ rq' = [rq EXCEPT !.pc = "request", !.attempt = @ + 1, !.sent = @ + 1]
  /\ UNCHANGED <<encoding, tokVars, ledgerVars, pb, parseVars, q, ex, ix, sc, ff>>

\* the awaited post is answered: complete returns the response
RequestAnswered ==
  /\ rq.pc = "request"
  /\ rq' = [rq EXCEPT !.pc = "done", !.outcome = "returned"]
  /\ UNCHANGED <<encoding, tokVars, ledgerVars, pb, parseVars, q, ex, ix, sc, ff>>

ClientNext == CompleteCall \/ RequestRejected \/ BackoffOver \/ RequestAnswered

SpecClient == ClientInit /\ [][ClientNext]_vars

\* every awaited request is answered or rejected and every sleep ends
SpecClientLive == SpecClient /\ WF_vars(ClientNext)

(* ------------------------------------------------------------------ *)
(* Model client: the attempts of one call of completeWithStreaming       *)
(* ------------------------------------------------------------------ *)

\* largest number of content deltas of one stream
MaxDeltas == 2

\* data.choices[0].delta.content of a line of the stream
Deltas == {<<"a">>, <<"b">>}

\* what a stream that was opened fails with: the connection is reset. The
\* 'error' event of the stream does not go through the interceptor.
Reset == RequestError("ECONNRESET", 0, "aborted")

\* no call of completeWithStreaming:
\*   pc              "idle", "post" (the post is awaited), "stream" (the
\*                   promise on the stream is awaited), "sleep" or "done"
\*   attempt         the loop variable
\*   completionText, tokenCount   the locals of completeWithStreaming
\*   streamed        the text of the deltas of the stream of this attempt
\*   before          the text of the deltas of the streams that failed
\*   outcome         "returned" or "thrown"
\*   content         content of the object returned
StreamIdle ==
  [ pc |-> "idle", attempt |-> 0, completionText |-> <<>>, tokenCount |-> 0,
    streamed |-> <<>>, before |-> <<>>, outcome |-> "none", content |-> <<>> ]

\* the catch of completeWithStreaming
streamCaught(call, error) ==
  IF doNotRetry(error) \/ ~(call.attempt < maxRetries - 1)
  THEN [call EXCEPT !.pc = "done", !.outcome = "thrown"]
  ELSE [call EXCEPT !.pc = "sleep"]

StreamInit ==
  /\ encoding = FALSE
  /\ tcText = <<>>
  /\ tcMaxTokens = 0
  /\ tcAvailable = 0
  /\ tcTruncated = [done |-> FALSE, text |-> <<>>]
  /\ tcBudget = [done |-> FALSE, budget |-> NoBudget]
  /\ LedgerIdle
  /\ ParserIdle
  /\ q = QIdle
  /\ ex = ExIdle
  /\ ix = IxIdle
  /\ rq = StreamIdle
  /\ sc = ScIdle
  /\ ff = FfIdle

\* completeWithStreaming(requestBody, onProgress) to its first post
CompleteWithStreaming ==
  /\ rq.pc = "idle"
  /\ rq' = [StreamIdle EXCEPT !.pc = "post"]
  /\ UNCHANGED <<encoding, tokVars, ledgerVars, pb, parseVars, q, ex, ix, sc, ff>>

\* the awaited post is rejected
PostRejected ==
  /\ rq.pc = "post"
  /\ \E error \in RequestErrors : rq' = streamCaught(rq, interceptor(error))
  /\ UNCHANGED <<encoding, tokVars, ledgerVars, pb, parseVars, q, ex, ix, sc, ff>>

\* the awaited post is answered with a stream
StreamOpens ==
  /\ rq.pc = "post"
  /\ rq' = [rq EXCEPT !.pc = "stream", !.streamed = <<>>]
  /\ UNCHANGED <<encoding, tokVars, ledgerVars, pb, parseVars, q, ex, ix, sc, ff>>

\* a 'data' event with one line that holds a content delta
StreamData ==
  /\ rq.pc = "stream"
  /\ Len(rq.streamed) < MaxDeltas
  /\ \E content \in Deltas :
       rq' = [rq EXCEPT !.completionText = @ \o content,
                        !.tokenCount = @ + 1,
                        !.streamed = @ \o content]
  /\ UNCHANGED <<encoding, tokVars, ledgerVars, pb, parseVars, q, ex, ix, sc, ff>>

\* the 'end' event: the promise resolves and completeWithStreaming returns
StreamEnds ==
  /\ rq.pc = "stream"
  /\ rq' = [rq EXCEPT !.pc = "done", !.outcome = "returned",
                      !.content = rq.completionText]
  /\ UNCHANGED <<encoding, tokVars, ledgerVars, pb, parseVars, q, ex, ix, sc, ff>>

\* the 'error' event: the promise rejects
StreamFails ==
  /\ rq.pc = "stream"
  /\ rq' = [streamCaught(rq, Reset) EXCEPT !.before = @ \o rq.streamed]
  /\ UNCHANGED <<encoding, tokVars, ledgerVars, pb, parseVars, q, ex, ix, sc, ff>>

\* sleep(delay) is over: the next turn of the loop
StreamRetried ==
  /\ rq.pc = "sleep"
  /\ rq' = [rq EXCEPT !.pc = "post", !.attempt = @ + 1]
  /\ UNCHANGED <<encoding, tokVars, ledgerVars, pb, parseVars, q, ex, ix, sc, ff>>

StreamNext ==
  \/ CompleteWithStreaming
  \/ PostRejected
  \/ StreamOpens
  \/ StreamData
  \/ StreamEnds
  \/ StreamFails
  \/ StreamRetried

SpecStream == StreamInit /\ [][StreamNext]_vars

(* ------------------------------------------------------------------ *)
(* ContextManager.shouldCompress                                         *)
(* ------------------------------------------------------------------ *)

\* context windows at which the double product contextWindow * 0.7 rounds
\* just below the exact integer
Float70Low == {90, 170, 180, 330, 340, 350, 360}

\* Math.floor(contextWindow * threshold) in IEEE double arithmetic, the
\* threshold in percent; an integer exceeds the product exactly when it
\* exceeds this
FloorProduct(window, pct) ==
  LET exact == (window * pct) \div 100
  IN IF pct = 70 /\ window \in Float70Low THEN exact - 1 ELSE exact

\* a parameter with a default value: the default replaces undefined only
withDefault(argument, default) == IF argument = undefined THEN default ELSE argument

\* shouldCompress returning true from the threshold on
shouldCompressFrom(currentTokens, maxTokens, threshold, lastUsage, full, window, enc) ==
  LET given   == withDefault(currentTokens, null)
      reading == IF lastUsage = null THEN undefined ELSE Num(lastUsage.promptTokens)
      tokens  == IF given = null
                 THEN IF Truthy(reading) THEN reading.num
                      ELSE countMessagesTokens(full, enc)
                 ELSE given.num
      ceiling == IF Truthy(withDefault(maxTokens, null))
                 THEN maxTokens.num ELSE window
  IN tokens >= FloorProduct(ceiling, withDefault(threshold, Num(70)).num)

\* shouldCompress(currentTokens = null, maxTokens = null, threshold = 0.7):
\* lastUsage is lmstudioClient.getLastUsage(), full is history.full and
\* window is lmstudioClient.getContextWindow()
shouldCompress(currentTokens, maxTokens, threshold, lastUsage, full, window, enc) ==
  LET given   == withDefault(currentTokens, null)
      reading == IF lastUsage = null THEN undefined ELSE Num(lastUsage.promptTokens)
      tokens  == IF given = null
                 THEN IF Truthy(reading) THEN reading.num
                      ELSE countMessagesTokens(full, enc)
                 ELSE given.num
      ceiling == IF Truthy(withDefault(maxTokens, null))
                 THEN maxTokens.num ELSE window
  IN tokens > FloorProduct(ceiling, withDefault(threshold, Num(70)).num)

\* largest token count a usage reading or an override holds
MaxPromptTokens == 71

\* token counts: none, and those around the thresholds
TokenCounts == {0} \cup 61..MaxPromptTokens

\* lengths of the one message the ledger holds; 0 for an empty ledger
HistoryLengths == {0, 190, 194, 217, 220}

\* context windows the model server reports
CompressWindows == {90, 100}

\* the ledger with one user message of that length
ledgerOf(len) ==
  IF len = 0 THEN clearedHistory
  ELSE addMessage(clearedHistory, "user", Rep("a", len), 1)

\* the arguments, the last usage reading, the ledger and the context window
\* of one call of shouldCompress
CompressInit ==
  /\ encoding \in BOOLEAN
  /\ tcText = <<>>
  /\ tcMaxTokens = 0
  /\ tcAvailable = 0
  /\ tcTruncated = [done |-> FALSE, text |-> <<>>]
  /\ tcBudget = [done |-> FALSE, budget |-> NoBudget]
  /\ contextWindow \in CompressWindows
  /\ recentMessagesCount = 0
  /\ history \in {ledgerOf(len) : len \in HistoryLengths}
  /\ clock = Len(history.full)
  /\ cm = CmIdle
  /\ cmLast = NoCall
  /\ pb = PbIdle
  /\ ParserIdle
  /\ q = QIdle
  /\ ex = ExIdle
  /\ ix = IxIdle
  /\ rq = RqIdle
  /\ \E currentTokens \in {undefined, null} \cup {Num(n) : n \in TokenCounts},
        maxTokens \in {undefined, null, Num(80), Num(90)},
        threshold \in {undefined, Num(50), Num(70)},
        lastUsage \in {null} \cup {[promptTokens |-> n] : n \in TokenCounts} :
       sc = [ScIdle EXCEPT !.currentTokens = currentTokens, !.maxTokens = maxTokens,
                           !.threshold = threshold, !.lastUsage = lastUsage]
  /\ ff = FfIdle

\* a call of shouldCompress(sc.currentTokens, sc.maxTokens, sc.threshold)
ShouldCompress ==
  /\ ~sc.done
  /\ sc' = [sc EXCEPT !.done = TRUE,
                      !.result = shouldCompress(sc.currentTokens, sc.maxTokens,
                                                sc.threshold, sc.lastUsage,
                                                history.full, contextWindow, encoding)]
  /\ UNCHANGED <<encoding, tokVars, ledgerVars, pb, parseVars, q, ex, ix, rq, ff>>

CompressNext == ShouldCompress

SpecCompress == CompressInit /\ [][CompressNext]_vars

(* ------------------------------------------------------------------ *)
(* The ledger between queries: the size check and the compression        *)
(* ------------------------------------------------------------------ *)

\* largest number of queries of a session
MaxTurns == 2

\* lengths of the queries and of the responses the session records
TurnLengths == {8, 150}

\* prompt_tokens of the usage a model call reports
UsageReadings == {0, 20, 80}

\* lastUsage after a model call: as it was when the response has no usage
UsageAfter(lastUsage) ==
  {lastUsage} \cup {[promptTokens |-> n] : n \in UsageReadings}

\* config.contextManagement.compressionThreshold, in percent
compressionThreshold == 70

\* compressHistory(keepRecentCount) to its await: cm and cmLast afterwards
compressCalled(h, k) ==
  LET text     == formatMessagesForCompression(sliceHead(h.full, k))
      observed == [ k |-> k, before |-> h, requested |-> FALSE, sent |-> <<>>,
                    outcome |-> "returned", summary |-> <<>>, raised |-> FALSE ]
  IN IF compressReturnsEarly(h.full, k)
     THEN [cm |-> CmIdle, cmLast |-> observed]
     ELSE [ cm     |-> [ pc |-> "awaiting", toKeep |-> sliceTail(h.full, k),
                         conversationText |-> text ],
            cmLast |-> [observed EXCEPT !.requested = TRUE, !.sent = text,
                                        !.outcome = "awaiting"] ]

\* the size check of processQuery and of checkAndCompressContext, and the
\* compression it starts: sc, cm and cmLast afterwards
checkedAndCompressed(h, lastUsage, window, k, enc) ==
  LET due == shouldCompress(null, null, Num(compressionThreshold), lastUsage,
                            h.full, window, enc)
      c   == IF due THEN compressCalled(h, k)
             ELSE [cm |-> CmIdle, cmLast |-> NoCall]
  IN [ sc |-> [ done |-> TRUE, currentTokens |-> null, maxTokens |-> null,
                threshold |-> Num(compressionThreshold), lastUsage |-> lastUsage,
                result |-> due ],
       cm |-> c.cm, cmLast |-> c.cmLast ]

\* a session that starts with an empty ledger
DueInit ==
  /\ encoding \in BOOLEAN
  /\ tcText = <<>>
  /\ tcMaxTokens = 0
  /\ tcAvailable = 0
  /\ tcTruncated = [done |-> FALSE, text |-> <<>>]
  /\ tcBudget = [done |-> FALSE, budget |-> NoBudget]
  /\ contextWindow \in CompressWindows
  /\ recentMessagesCount \in 0..MaxKeep
  /\ history = clearedHistory
  /\ clock = 0
  /\ cm = CmIdle
  /\ cmLast = NoCall
  /\ pb = PbIdle
  /\ ParserIdle
  /\ q = QIdle
  /\ ex = ExIdle
  /\ ix = IxIdle
  /\ rq = RqIdle
  /\ sc = [ScIdle EXCEPT !.done = TRUE]
  /\ ff = FfIdle

\* processQuery from the response of its last model call on: the usage the
\* call reported, the two messages, the size check and the compression to
\* its await
ProcessQuerySaves ==
  /\ cm.pc = "idle"
  /\ clock < 2 * MaxTurns
  /\ \E lastUsage \in UsageAfter(sc.lastUsage), ql \in TurnLengths, rl \in TurnLengths :
       LET h == addMessage(addMessage(history, "user", Rep("q", ql), clock + 1),
                           "assistant", Rep("r", rl), clock + 2)
           c == checkedAndCompressed(h, lastUsage, contextWindow,
                                     recentMessagesCount, encoding)
       IN /\ history' = h
          /\ sc' = c.sc
          /\ cm' = c.cm
          /\ cmLast' = c.cmLast
  /\ clock' = clock + 2
  /\ UNCHANGED <<encoding, tokVars, contextWindow, recentMessagesCount, pb, parseVars,
                 q, ex, ix, rq, ff>>

\* the session is started again on the saved ledger: a new client, without a
\* usage reading, and checkAndCompressContext
CheckAndCompressContext ==
  /\ cm.pc = "idle"
  /\ history.full # <<>>
  /\ LET c == checkedAndCompressed(history, null, contextWindow,
                                   recentMessagesCount, encoding)
     IN /\ sc' = c.sc
        /\ cm' = c.cm
        /\ cmLast' = c.cmLast
  /\ UNCHANGED <<encoding, tokVars, contextWindow, recentMessagesCount, history, clock,
                 pb, parseVars, q, ex, ix, rq, ff>>

\* lmstudioClient.compress resolves: the usage its model call reported, and
\* the rest of the try block of compressHistory
CompressResolves ==
  /\ cm.pc = "awaiting"
  /\ \E compressed \in Summaries, lastUsage \in UsageAfter(sc.lastUsage) :
       /\ history' = compressSucceeded(history, cm.toKeep, compressed)
       /\ cmLast' = [cmLast EXCEPT !.outcome = "ok", !.summary = compressed]
       /\ sc' = [ScIdle EXCEPT !.lastUsage = lastUsage]
  /\ cm' = CmIdle
  /\ UNCHANGED <<encoding, tokVars, contextWindow, recentMessagesCount, clock, pb,
                 parseVars, q, ex, ix, rq, ff>>

\* lmstudioClient.compress rejects: the catch block of compressHistory
CompressRejects ==
  /\ cm.pc = "awaiting"
  /\ LET r == compressFailed(history, cm.toKeep)
     IN /\ history' = r.ledger
        /\ cmLast' = [cmLast EXCEPT !.outcome = "error", !.raised = r.raised]
  /\ cm' = CmIdle
  /\ UNCHANGED <<encoding, tokVars, contextWindow, recentMessagesCount, clock, pb,
                 parseVars, runVars>>

\* ShouldCompress is the check with default arguments made after a compression
DueNext ==
  \/ ProcessQuerySaves
  \/ CheckAndCompressContext
  \/ CompressResolves
  \/ CompressRejects
  \/ ShouldCompress

SpecDue == DueInit /\ [][DueNext]_vars

(* ------------------------------------------------------------------ *)
(* PromptBuilder.formatFileContents                                      *)
(* ------------------------------------------------------------------ *)

\* largest number of candidate files handed to formatFileContents
MaxCandidates == 2

\* the candidate files, with their content: a short one that ends with a
\* line end, a long one and a symbol-heavy one
CandidateFiles ==
  { [path |-> <<"x", ".", "j", "s">>, content |-> Rep("a", 20) \o <<"\n">>],
    [path |-> <<"y", ".", "j", "s">>, content |-> Rep("b", 600)],
    [path |-> <<"z", ".", "j", "s">>, content |-> Rep("#", 150)] }

\* lists of different candidate files
CandidateLists ==
  UNION { { list \in [1..n -> CandidateFiles] :
            \A i, j \in 1..n : i # j => list[i] # list[j] } : n \in 0..MaxCandidates }

\* budget.fileContents values
FileBudgets == {0, 12, 60, 119, 120, 121, 125, 150, 200, 250, 400}

\* the candidate files and the budget of one call of formatFileContents
FormatInit ==
  /\ encoding \in BOOLEAN
  /\ tcText = <<>>
  /\ tcMaxTokens = 0
  /\ tcAvailable = 0
  /\ tcTruncated = [done |-> FALSE, text |-> <<>>]
  /\ tcBudget = [done |-> FALSE, budget |-> NoBudget]
  /\ LedgerIdle
  /\ ParserIdle
  /\ q = QIdle
  /\ ex = ExIdle
  /\ ix = IxIdle
  /\ rq = RqIdle
  /\ sc = ScIdle
  /\ \E files \in CandidateLists, tokenBudget \in FileBudgets :
       ff = [FfIdle EXCEPT !.files = files, !.tokenBudget = tokenBudget]

\* a call of formatFileContents(ff.files, ff.tokenBudget)
FormatFileContents ==
  /\ ~ff.done
  /\ \E ulp \in {0, 1} :
       ff' = [ff EXCEPT !.done = TRUE,
                        !.result = formatFileContents(ff.files, ff.tokenBudget,
                                                      encoding, ulp)]
  /\ UNCHANGED <<encoding, tokVars, ledgerVars, pb, parseVars, q, ex, ix, rq, sc>>

FormatNext == FormatFileContents

SpecFormat == FormatInit /\ [][FormatNext]_vars

(* ------------------------------------------------------------------ *)
(* Properties of the token ledger                                        *)
(* ------------------------------------------------------------------ *)

\* C1: the string returned by truncateToTokenLimit(text, maxTokens), marker
\* included, measures at most maxTokens tokens by countTokens.
C1_TruncatedWithinLimit ==
  tcTruncated.done => countTokens(tcTruncated.text, encoding) <= tcMaxTokens

\* C2: each of the six allocations is a non-negative integer and their sum is
\* at most availableTokens.
C2_BudgetWithinAvailable ==
  tcBudget.done =>
    /\ \A f \in DOMAIN tcBudget.budget : tcBudget.budget[f] \in Nat
    /\ BudgetSum(tcBudget.budget) <= tcAvailable

\* a budget was allocated from a positive amount and hands out tokens
C2_Witness ==
  /\ tcBudget.done
  /\ tcAvailable > 0
  /\ BudgetSum(tcBudget.budget) > 0
  /\ tcBudget.budget.fileContents > tcBudget.budget.recentHistory

(* ------------------------------------------------------------------ *)
(* Properties of the conversation ledger                                 *)
(* ------------------------------------------------------------------ *)

\* the step in which a compressHistory call is entered
CompressEntered ==
  /\ cm.pc = "idle"
  /\ cmLast' # cmLast
  /\ cmLast'.outcome \in {"returned", "awaiting"}

\* the step in which a compressHistory call ends without the summarization
\* collaborator having failed
CompressCompleted ==
  /\ cmLast' # cmLast
  /\ cm'.pc = "idle"
  /\ cmLast'.outcome \in {"returned", "ok"}

\* the last count messages of a window
LastMessages(full, count) == SubSeq(full, Len(full) - count + 1, Len(full))

\* C3: compressHistory(keepRecentCount) on a window of at most keepRecentCount
\* messages issues no summarization request and leaves the full window and
\* the compressed summary unchanged.
C3_NoOpWhenWindowShort ==
  [][ (CompressEntered /\ Len(history.full) <= recentMessagesCount)
        => /\ ~cmLast'.requested
           /\ cm'.pc = "idle"
           /\ history' = history ]_vars

\* compressHistory was called on a non-empty window no longer than
\* keepRecentCount and returned without a request
C3_Witness ==
  /\ cmLast.outcome = "returned"
  /\ cmLast.before.full # <<>>
  /\ Len(cmLast.before.full) <= cmLast.k
  /\ ~cmLast.requested
  /\ history = cmLast.before

\* C4: for every keepRecentCount >= 0 and every window longer than it, when
\* compressHistory completes without the collaborator failing the compressed
\* summary is non-empty and the full window has exactly keepRecentCount messages.
C4_CompressedAndCut ==
  [][ (CompressCompleted /\ Len(cmLast'.before.full) > cmLast'.k)
        => /\ history'.compressed # <<>>
           /\ Len(history'.full) = cmLast'.k ]_vars

\* C5: when the summarization collaborator raises, the full window and the
\* compressed summary are what they were before the call, and compressHistory
\* does not raise.
C5_FailureKeepsLedger ==
  [][ (cm.pc = "awaiting" /\ cmLast'.outcome = "error")
        => /\ history' = history
           /\ history' = cmLast'.before
           /\ ~cmLast'.raised
           /\ cm'.pc = "idle" ]_vars

\* a summarization request for a window with a summary already present failed
C5_Witness ==
  /\ cmLast.outcome = "error"
  /\ cmLast.requested
  /\ cmLast.sent # <<>>
  /\ Len(cmLast.before.full) > cmLast.k
  /\ cmLast.before.compressed # <<>>
  /\ history = cmLast.before

\* C6: a compressHistory(k) that completes on a window of n > k messages
\* leaves exactly the last k messages of the old window, in order and once
\* each, and none of them is part of the text sent for summarization.
C6_OnlyPrefixReplaced ==
  [][ (CompressCompleted /\ Len(cmLast'.before.full) > cmLast'.k)
        => /\ history'.full = LastMessages(history.full, cmLast'.k)
           /\ \A i \in 1..Len(history'.full) :
                ~Includes(cmLast'.sent, history'.full[i].content) ]_vars

\* C7: while history is not cleared the compressed summary is only extended:
\* the old summary stays a prefix, and a successful compression of a ledger
\* with a non-empty summary S leaves S, the separator, then the new summary.
C7_SummaryOnlyExtended ==
  [][ ~ClearHistory
        => /\ IsPrefix(history.compressed, history'.compressed)
           /\ (cm.pc = "awaiting" /\ cmLast'.outcome = "ok" /\ history.compressed # <<>>)
                => history'.compressed
                     = history.compressed \o BlankLine \o cmLast'.summary ]_vars

\* a second successful compression appended its summary to an earlier one
C7_Witness ==
  /\ cmLast.outcome = "ok"
  /\ cmLast.before.compressed # <<>>
  /\ cmLast.summary # <<>>
  /\ history.compressed = cmLast.before.compressed \o BlankLine \o cmLast.summary
  /\ Len(history.compressed) > Len(cmLast.before.compressed)

(* ------------------------------------------------------------------ *)
(* Properties of the prompt assembler                                    *)
(* ------------------------------------------------------------------ *)

\* the primary system message and the user query of the assembled prompt
SystemAndQuery == <<pb.assembled[1], pb.assembled[Len(pb.assembled)]>>

\* C8: whenever the primary system message plus the user query alone fit
\* within the available tokens, the returned message list measures at most
\* metadata.availableTokens (metadata.totalTokens).
C8_ReturnedPromptFits ==
  (/\ pb.pc = "returned"
   /\ countMessagesTokens(SystemAndQuery, encoding) <= pb.metadata.availableTokens)
    => /\ pb.metadata.totalTokens <= pb.metadata.availableTokens
       /\ countMessagesTokens(pb.messages, encoding) <= pb.metadata.availableTokens

\* C9: metadata.wasReduced is true exactly when the assembled prompt exceeded
\* the available tokens and at least one message was dropped, and false when
\* nothing was dropped.
C9_WasReducedIffDropped ==
  pb.pc = "returned"
    => (pb.metadata.wasReduced
          <=> (/\ pb.initialTokens > pb.availableTokens
               /\ Len(pb.messages) < Len(pb.assembled)))

\* positions of the conversation messages still in the list: every
\* non-system message before the user query
Conversation(messages) ==
  {j \in 1..(Len(messages) - 1) : messages[j].role # "system"}

\* C10: every removal of the degrade ladder happens while the prompt is over
\* budget and removes exactly one message, never the user query: the oldest
\* remaining conversation message while there is one, and the relevant-files
\* system message only when no conversation message is left.
C10_LadderOrder ==
  [][ (pb.pc \in {"reduce", "files"} /\ pb'.messages # pb.messages)
        => \E i \in 1..(Len(pb.messages) - 1) :
             /\ Len(pb'.messages) = Len(pb.messages) - 1
             /\ \A j \in 1..(i - 1) : pb'.messages[j] = pb.messages[j]
             /\ \A j \in i..Len(pb'.messages) : pb'.messages[j] = pb.messages[j + 1]
             /\ pb.actualTokens > pb.availableTokens
             /\ IF Conversation(pb.messages) # {}
                THEN /\ i \in Conversation(pb.messages)
                     /\ \A j \in Conversation(pb.messages) : i <= j
                ELSE /\ pb.messages[i].role = "system"
                     /\ Includes(pb.messages[i].content, RelevantFilesTag) ]_vars

\* a prompt came back from which the ladder dropped two conversation
\* messages and then the relevant-files message
C10_Witness ==
  /\ pb.pc = "returned"
  /\ Cardinality(Conversation(pb.assembled)) >= 2
  /\ Conversation(pb.messages) = {}
  /\ filesMessage(pb.assembled) # 0
  /\ filesMessage(pb.messages) = 0
  /\ Len(pb.assembled) - Len(pb.messages) >= 3

\* a is b with some of its elements left out, the rest in b's order
RECURSIVE IsSubsequence(_, _)
IsSubsequence(a, b) ==
  IF a = <<>> THEN TRUE
  ELSE IF b = <<>> THEN FALSE
  ELSE IF Head(a) = Head(b) THEN IsSubsequence(Tail(a), Tail(b))
  ELSE IsSubsequence(a, Tail(b))

\* the sections buildPrompt places between the primary system message and
\* the user query, in the order of the specification: summary, relevant
\* files, recent conversation messages in history order
SectionsInOrder ==
  (IF pb.historyData.compressedHistory # <<>>
   THEN <<[role |-> "system",
           content |-> SummaryHeading \o pb.historyData.compressedHistory]>>
   ELSE <<>>)
  \o (IF pb.filesContent # <<>>
      THEN <<[role |-> "system", content |-> pb.filesContent]>>
      ELSE <<>>)
  \o promptMessagesOf(pb.historyData.recentMessages)

\* C11: in every message list buildPrompt returns, reduced or not, the first
\* message is the primary system instructions, the last is the user query
\* with its content unchanged, and what lies between them is taken from
\* summary, relevant files, recent messages in that order.
C11_SectionsKeepOrder ==
  pb.pc = "returned"
    => /\ Len(pb.messages) >= 2
       /\ pb.messages[1] = [role |-> "system", content |-> pb.systemContent]
       /\ pb.messages[Len(pb.messages)] = [role |-> "user", content |-> pb.userQuery]
       /\ IsSubsequence(SubSeq(pb.messages, 2, Len(pb.messages) - 1), SectionsInOrder)

\* the same for the list as assembled, before the safety check runs
AssembledKeepsOrder ==
  pb.pc # "idle"
    => pb.assembled = <<[role |-> "system", content |-> pb.systemContent]>>
                        \o SectionsInOrder
                        \o <<[role |-> "user", content |-> pb.userQuery]>>

\* the order is kept whenever the primary system content does not itself
\* include the text 'RELEVANT FILES:'
OrderKeptWithoutTag ==
  (pb.pc = "returned" /\ ~Includes(pb.systemContent, RelevantFilesTag))
    => /\ pb.messages[1] = [role |-> "system", content |-> pb.systemContent]
       /\ pb.messages[Len(pb.messages)] = [role |-> "user", content |-> pb.userQuery]
       /\ IsSubsequence(SubSeq(pb.messages, 2, Len(pb.messages) - 1), SectionsInOrder)

\* paths of the files findRelevantFiles may return
CandidatePaths == {<<"f">>, <<"g">>}

\* the files whose header is in a system message of the list
FilesIn(messages) ==
  { path \in CandidatePaths :
      \E j \in 1..Len(messages) :
        /\ messages[j].role = "system"
        /\ Includes(messages[j].content, fileHeader(path)) }

\* C31: the metadata describes the returned list: totalTokens is its
\* measured token count, fileCount the number of files in it and
\* historyMessageCount the number of conversation messages in it.
C31_MetadataDescribesPrompt ==
  pb.pc = "returned" =>
    /\ pb.metadata.totalTokens = countMessagesTokens(pb.messages, encoding)
    /\ pb.metadata.fileCount = Cardinality(FilesIn(pb.messages))
    /\ pb.metadata.historyMessageCount = Cardinality(Conversation(pb.messages))

\* totalTokens is the measured token count of the returned list
TotalTokensMeasured ==
  pb.pc = "returned" =>
    pb.metadata.totalTokens = countMessagesTokens(pb.messages, encoding)

\* the two counts describe the list as it was assembled when every file
\* found fitted the budget, and never undercount the returned one
CountsDescribeAssembled ==
  pb.pc = "returned" =>
    /\ pb.metadata.historyMessageCount = Cardinality(Conversation(pb.assembled))
    /\ pb.metadata.fileCount >= Cardinality(FilesIn(pb.assembled))
    /\ Cardinality(FilesIn(pb.assembled)) >= Cardinality(FilesIn(pb.messages))

\* a returned prompt without its conversation messages whose metadata counts them
HistoryCountedAfterDrop ==
  /\ pb.pc = "returned"
  /\ Conversation(pb.messages) = {}
  /\ pb.metadata.historyMessageCount > 0

\* a returned prompt without files whose metadata counts files
FilesCountedAfterDrop ==
  /\ pb.pc = "returned"
  /\ FilesIn(pb.messages) = {}
  /\ pb.metadata.fileCount > 0

(* ------------------------------------------------------------------ *)
(* Properties of the action extractor                                    *)
(* ------------------------------------------------------------------ *)

\* the list a parser result keeps the actions of one kind in
ActionsOfKind(actions, kind) ==
  CASE kind = "edit"   -> actions.fileEdits
    [] kind = "create" -> actions.fileCreates
    [] kind = "delete" -> actions.fileDeletes
    [] kind = "task"   -> actions.taskUpdates
    [] kind = "search" -> actions.searches
    [] kind = "read"   -> actions.readLines
    [] OTHER           -> <<>>

\* C12: one intent written as a tagged block and as a function call with the
\* same field values gives, by parseResponse and by
\* convertToolCallsToActions(parseToolCalls(...)), the same action: same
\* fields, same values.
C12_GrammarsAgree ==
  (intent # NoIntent /\ parsed.done /\ converted.done)
    => /\ ~converted.raised
       /\ ActionsOfKind(parsed.value, intent.kind) # <<>>
       /\ ActionsOfKind(parsed.value, intent.kind)
            = ActionsOfKind(converted.actions, intent.kind)

\* the two grammars agree on the intents that are requests or task updates
GrammarsAgreeOnRequests ==
  (intent.kind \in {"task", "search", "read"} /\ parsed.done /\ converted.done)
    => /\ ~converted.raised
       /\ ActionsOfKind(parsed.value, intent.kind) # <<>>
       /\ ActionsOfKind(parsed.value, intent.kind)
            = ActionsOfKind(converted.actions, intent.kind)

\* the blocks that are requests or questions, not actions
RequestBlocks ==
  {b \in Blocks : \/ StartsWith(b, <<"<", "q", "u", "e", "s", "t", "i", "o", "n", ">">>)
                  \/ StartsWith(b, <<"<", "s", "e", "a", "r", "c", "h", ">">>)
                  \/ StartsWith(b, <<"<", "R", "E", "A", "D", "_", "L", "I", "N", "E", "S", ">">>)}

\* the texts made of request and question blocks only
RequestsOnly ==
  {Concat(blocks) : blocks \in UNION {[1..n -> RequestBlocks] : n \in 1..MaxBlocks}}

\* C18: hasActions(response) is true exactly when parseResponse(response)
\* yields a file edit, a file create, a file delete or a task update; a
\* response of search, read-range, web and question blocks only gives false.
C18_HasActionsIffAction ==
  (parsed.done /\ answered.done)
    => /\ answered.value
            <=> \/ parsed.value.fileEdits # <<>>
                \/ parsed.value.fileCreates # <<>>
                \/ parsed.value.fileDeletes # <<>>
                \/ parsed.value.taskUpdates # <<>>
       /\ response.content \in RequestsOnly => ~answered.value

\* hasActions answered false for a response that asks for a search
C18_Witness ==
  /\ parsed.done
  /\ answered.done
  /\ ~answered.value
  /\ response.content \in RequestsOnly
  /\ parsed.value.searches # <<>>

\* String.prototype.endsWith
EndsWith(text, suffix) ==
  /\ Len(suffix) <= Len(text)
  /\ SubSeq(text, Len(text) - Len(suffix) + 1, Len(text)) = suffix

\* a path as C19 wants it: a string without white space around it, without
\* '---' at either end and without a quote at either end
Normalized(path) ==
  /\ IsStr(path)
  /\ Trim(path.str) = path.str
  /\ ~StartsWith(path.str, Dashes)
  /\ ~EndsWith(path.str, Dashes)
  /\ path.str # <<>> => (Head(path.str) \notin Quotes /\ path.str[Len(path.str)] \notin Quotes)

\* the paths of the edits, creates, deletes and read-range requests
PathsOf(actions) ==
  {actions.fileEdits[i].path : i \in DOMAIN actions.fileEdits}
    \cup {actions.fileCreates[i].path : i \in DOMAIN actions.fileCreates}
    \cup {actions.fileDeletes[i].path : i \in DOMAIN actions.fileDeletes}
    \cup {actions.readLines[i].path : i \in DOMAIN actions.readLines}

\* C19: every path of an extracted edit, create, delete or read-range
\* action is normalized, whether it was read from a tagged block or from a
\* function call.
C19_PathsNormalized ==
  /\ parsed.done => \A path \in PathsOf(parsed.value) : Normalized(path)
  /\ converted.done => \A path \in PathsOf(converted.actions) : Normalized(path)

\* the paths read from tagged blocks have no white space around them
TaggedPathsTrimmed ==
  parsed.done
    => \A path \in PathsOf(parsed.value) : IsStr(path) /\ Trim(path.str) = path.str

\* the function calls whose arguments were parsed
wellFormed(toolCalls) == SelectSeq(toolCalls, LAMBDA call : "error" \notin DOMAIN call)

\* C20: a function call whose argument text is not JSON is skipped: the
\* actions are those of the other calls, each converted, and no error is
\* raised.
C20_MalformedCallSkipped ==
  converted.done
    => /\ ~converted.raised
       /\ converted.actions
            = convertToolCallsToActions(wellFormed(converted.toolCalls)).actions

\* no error is raised on a malformed call, and the well-formed calls are
\* converted as they are without it
MalformedCallKeepsOthers ==
  converted.done
    => /\ ~converted.raised
       /\ LET others == convertToolCallsToActions(wellFormed(converted.toolCalls)).actions
          IN \A kind \in {"edit", "create", "delete", "task", "search", "read"} :
               IsSubsequence(ActionsOfKind(others, kind),
                             ActionsOfKind(converted.actions, kind))

\* the blocks that are malformed: an edit block without <operation>, <new>
\* and its closing tag, and a closed edit block without <new>
MalformedBlocks ==
  { <<"o", "k", " ", "<", "f", "i", "l", "e", "_", "e", "d", "i", "t", ">", "<", "p", "a", "t", "h", ">", "a", ".", "j", "s", "<", "/", "p", "a", "t", "h", ">", "<", "o", "l", "d", ">", "x", "<", "/", "o", "l", "d", ">">>,
    <<"<", "f", "i", "l", "e", "_", "e", "d", "i", "t", ">", "\n", "<", "p", "a", "t", "h", ">", "e", ".", "j", "s", "<", "/", "p", "a", "t", "h", ">", "\n", "<", "o", "p", "e", "r", "a", "t", "i", "o", "n", ">", "r", "e", "p", "l", "a", "c", "e", "<", "/", "o", "p", "e", "r", "a", "t", "i", "o", "n", ">", "\n", "<", "o", "l", "d", ">", "x", "<", "/", "o", "l", "d", ">", "\n", "<", "/", "f", "i", "l", "e", "_", "e", "d", "i", "t", ">">> }

\* the blocks of a response without the malformed ones
wellFormedBlocks(blocks) == SelectSeq(blocks, LAMBDA b : b \notin MalformedBlocks)

\* the ways a text is made of blocks
BlocksOf(text) ==
  {blocks \in UNION {[1..n -> Blocks] : n \in 0..MaxBlocks} : Concat(blocks) = text}

\* the lists of actions and requests of a parser result
ActionLists(actions) ==
  [kind \in {"edit", "create", "delete", "task", "search", "read"}
     |-> ActionsOfKind(actions, kind)]

\* C21: a malformed or unmatched tagged block yields no action and raises
\* no error: the actions parseResponse extracts from a response are those it
\* extracts from the same response without its malformed blocks.
C21_MalformedBlockIgnored ==
  (parsed.done /\ intent = NoIntent /\ response.tool_calls = <<>>)
    => \A blocks \in BlocksOf(response.content) :
         (wellFormedBlocks(blocks) # blocks)
           => ActionLists(parsed.value)
                = ActionLists(parseResponse(Concat(wellFormedBlocks(blocks))))

\* a response of malformed blocks only yields no action, and a malformed
\* block that ends the response leaves the actions of the blocks before it
\* as they are
MalformedLastIgnored ==
  (parsed.done /\ intent = NoIntent /\ response.tool_calls = <<>>)
    => \A blocks \in BlocksOf(response.content) :
         (/\ wellFormedBlocks(blocks) # blocks
          /\ \A i \in DOMAIN blocks : \A j \in DOMAIN blocks :
                (blocks[i] \in MalformedBlocks /\ blocks[j] \notin MalformedBlocks) => j < i)
           => ActionLists(parsed.value)
                = ActionLists(parseResponse(Concat(wellFormedBlocks(blocks))))

\* the blocks one of the seven patterns matches from their first to their
\* last character
RecognizedBlocks ==
  {b \in Blocks \ MalformedBlocks : ~Includes(b, <<"<", "w", "e", "b", "_", "s", "e", "a", "r", "c", "h", ">">>)}

\* the texts made of recognized blocks only
RecognizedOnly ==
  {Concat(blocks) : blocks \in UNION {[1..n -> RecognizedBlocks] : n \in 1..MaxBlocks}}
    \cup {taggedBlock(i) : i \in Intents}

\* C22: the plainText of parseResponse has every recognized block removed
\* in full, so nothing is left of a response made of file_edit, file_create,
\* file_delete, task_update, question, search and read_lines blocks only.
C22_BlocksRemovedFromPlainText ==
  (parsed.done /\ response.content \in RecognizedOnly)
    => parsed.value.plainText = Str(<<>>)

\* every recognized block but a search block is removed in full
BlocksButSearchRemoved ==
  (/\ parsed.done
   /\ response.content \in RecognizedOnly
   /\ ~Includes(response.content, <<"<", "s", "e", "a", "r", "c", "h", ">">>))
    => /\ parsed.value.plainText = Str(<<>>)
       /\ anyActionOrRequest(parsed.value) \/ parsed.value.questions # <<>>

(* ------------------------------------------------------------------ *)
(* Properties of query processing                                       *)
(* ------------------------------------------------------------------ *)

\* the roles and contents of a list of messages
Exchange(messages) ==
  [i \in DOMAIN messages |-> <<messages[i].role, messages[i].content>>]

\* C13: when the first model response holds search or read-line requests,
\* the user is asked to confirm actions only after a second model call has
\* returned, the actions are those read from its response, and at no time are
\* two model calls awaited.
C13_RequestsAnsweredFirst ==
  /\ q.calls - q.completed <= 1
  /\ (q.pc = "confirm" /\ q.requested)
       => /\ q.from = "followUp"
          /\ q.calls = 2
          /\ ~q.failed

\* the part of C13 about model calls in flight holds on its own
OneCallAtATime == q.calls - q.completed \in {0, 1} /\ q.calls <= 2

\* C14: processQuery changes the ledger only when the query completes, by
\* appending the user query and then the assistant response; a query that
\* was cancelled or of which a model call failed leaves the window and the
\* summary as they were.
C14_LedgerOnlyOnCompletion ==
  q.pc # "idle"
    => IF q.pc = "save"
       THEN /\ q.cancelled = "none"
            /\ ~q.failed
            /\ history.compressed = q.before.compressed
            /\ Len(history.full) = Len(q.before.full) + 2
            /\ SubSeq(history.full, 1, Len(q.before.full)) = q.before.full
            /\ Exchange(SubSeq(history.full, Len(q.before.full) + 1, Len(history.full)))
                 = << <<"user", q.query>>, <<"assistant", q.currentResponse>> >>
       ELSE history = q.before

\* what C14 says of a query that went through without cancellation or failure
LedgerAfterPlainQuery ==
  q.pc # "idle"
    => IF q.pc = "save"
       THEN /\ history.compressed = q.before.compressed
            /\ Len(history.full) = Len(q.before.full) + 2
            /\ SubSeq(history.full, 1, Len(q.before.full)) = q.before.full
            /\ Exchange(SubSeq(history.full, Len(q.before.full) + 1, Len(history.full)))
                 = << <<"user", q.query>>, <<"assistant", q.currentResponse>> >>
       ELSE history = q.before

\* C15: once the cancellation signal has fired while a model call was
\* awaited, that call does not return a response, no further request or model
\* call is made for the query and no action is put before the user.
C15_CancelStopsQuery ==
  q.cancelled # "none"
    => q.after \cap {"response", "request", "call", "confirm"} = {}

\* C15 restricted to the first model call, the one that is given the signal
CancelStopsFirstCall ==
  q.cancelled = "first"
    => q.after \cap {"response", "request", "call", "confirm"} = {}

(* ------------------------------------------------------------------ *)
(* Properties of action execution                                       *)
(* ------------------------------------------------------------------ *)

\* the operations of a parsed response in the order edits, creates, deletes,
\* each list in its own order
Ops(batch) ==
  [k \in 1..Len(batch.fileEdits) |-> <<"edits", k>>]
    \o [k \in 1..Len(batch.fileCreates) |-> <<"creates", k>>]
    \o [k \in 1..Len(batch.fileDeletes) |-> <<"deletes", k>>]

\* one operation of a parsed response carried out on files
operate(files, index, batch, op) ==
  CASE op[1] = "edits" -> executeEdit(files, index, batch.fileEdits[op[2]])
    [] op[1] = "creates" -> executeCreate(files, batch.fileCreates[op[2]])
    [] op[1] = "deletes" -> executeDelete(files, index, batch.fileDeletes[op[2]])

\* the files after the operations ops, one after the other
RECURSIVE replay(_, _, _, _)
replay(files, index, batch, ops) ==
  IF ops = <<>> THEN files
  ELSE replay(operate(files, index, batch, Head(ops)).files, index, batch, Tail(ops))

\* C16: executeActions carries the operations out one after the other,
\* edits, then creates, then deletes, each list in order; at the first one
\* that fails nothing later is carried out (the task updates neither), what
\* was carried out before stays applied, and executeActions does not throw.
C16_FailFastInOrder ==
  /\ ~ex.raised
  /\ IsPrefix(ex.log, Ops(ex.parsed))
  /\ ex.pc # "idle" => ex.files = replay(ex.before, ex.index, ex.parsed, ex.log)
  /\ ex.pc = "done" => ex.outcome \in {"succeeded", "failed"}
  /\ (ex.pc = "done" /\ ex.outcome = "succeeded") => ex.log = Ops(ex.parsed)
  /\ (ex.pc = "done" /\ ex.outcome = "failed")
       => /\ Len(ex.log) < Len(Ops(ex.parsed))
          /\ ~operate(ex.files, ex.index, ex.parsed, Ops(ex.parsed)[Len(ex.log) + 1]).ok
          /\ ex.tasks = <<>>

\* an operation failed after another had changed the files and before one
\* that was still to come
C16_Witness ==
  /\ ex.pc = "done"
  /\ ex.outcome = "failed"
  /\ Len(ex.log) >= 1
  /\ ex.files # ex.before
  /\ Len(ex.log) + 1 < Len(Ops(ex.parsed))

\* C17: when an edit or a delete names a path that does not exist and the
\* index has no file or several files of that name, only that action is
\* given up: the other operations of the response are carried out.
C17_OnlyThatActionAborted ==
  (ex.pc = "done" /\ ex.cause = "unresolved")
    => Len(ex.log) = Len(Ops(ex.parsed)) - 1

\* what the code does for C17's case: it ends the whole batch there
UnresolvedEndsBatch ==
  (ex.pc = "done" /\ ex.cause = "unresolved")
    => /\ ex.outcome = "failed"
       /\ ~ex.raised
       /\ ex.tasks = <<>>
       /\ Len(ex.log) < Len(Ops(ex.parsed))
       /\ LET op == Ops(ex.parsed)[Len(ex.log) + 1]
          IN op[1] \in {"edits", "deletes"}

(* ------------------------------------------------------------------ *)
(* Properties of the codebase index                                      *)
(* ------------------------------------------------------------------ *)

\* the score the search gives a file: 10 for a path that contains the
\* query, 5 for every function name and every class name that contains it,
\* 2 for every import target that contains it, letter case set aside
Score(file, query) ==
  LET has(name) == Includes(toLowerCase(name), toLowerCase(query))
      count(names) == Cardinality({i \in DOMAIN names : has(names[i])})
  IN (IF has(file.relativePath) THEN 10 ELSE 0)
       + 5 * count(file.functions) + 5 * count(file.classes)
       + 2 * count(file.imports)

\* the files of the index that score above zero
Positive == {f \in Range(ix.files) : Score(f, ix.query) > 0}

\* a list of files of the index, none twice
FilesOfIndex(list) ==
  /\ Range(list) \subseteq Range(ix.files)
  /\ \A i \in DOMAIN list : \A j \in DOMAIN list : list[i] = list[j] => i = j

\* C23: when a file scores above zero, searchFiles returns the
\* min(limit, number of positive-scoring files) highest-scoring files in
\* non-increasing score order, the score being 10 for the path, 5 per
\* function and class name and 2 per import target that contains the query.
C23_TopScoresInOrder ==
  (ix.op = "searchFiles" /\ Positive # {})
    => LET found == ix.result.files
       IN /\ FilesOfIndex(found)
          /\ Range(found) \subseteq Positive
          /\ Len(found) = Min(ix.maxResults, Cardinality(Positive))
          /\ \A i \in DOMAIN found : \A j \in DOMAIN found :
                i < j => Score(found[i], ix.query) >= Score(found[j], ix.query)
          /\ \A f \in Positive \ Range(found) : \A g \in Range(found) :
                Score(g, ix.query) >= Score(f, ix.query)

\* three files score above zero and the limit is two: the file with two
\* matching function names, last in the index, is returned and the file
\* that scores lower, first in the index, is left out
C23_Witness ==
  /\ ix.op = "searchFiles"
  /\ Len(ix.files) = 3
  /\ Cardinality(Positive) = 3
  /\ Len(ix.result.files) = 2
  /\ ix.result.files[2] = ix.files[3]
  /\ ix.files[3].relativePath = <<"a", ".", "j", "s">>
  /\ Score(ix.files[3], ix.query) = 10
  /\ Score(ix.files[1], ix.query) = 7
  /\ ix.files[1] \notin Range(ix.result.files)

\* C24: when no file scores above zero and the index is not empty,
\* searchFiles returns the whole index if it has at most limit files, and
\* otherwise exactly limit files, none modified before a file it leaves out.
C24_FallbackNeverEmpty ==
  (ix.op = "searchFiles" /\ Positive = {} /\ ix.files # <<>>)
    => LET found == ix.result.files
       IN /\ found # <<>>
          /\ FilesOfIndex(found)
          /\ Len(ix.files) <= ix.maxResults => Range(found) = Range(ix.files)
          /\ Len(ix.files) > ix.maxResults
               => /\ Len(found) = ix.maxResults
                  /\ \A f \in Range(ix.files) \ Range(found) : \A g \in Range(found) :
                        g.modified >= f.modified

\* nothing matches in an index of three files and a limit of two: the two
\* files modified last are returned, the oldest is left out
C24_Witness ==
  /\ ix.op = "searchFiles"
  /\ Positive = {}
  /\ Len(ix.files) = 3
  /\ ix.maxResults = 2
  /\ Len(ix.result.files) = 2
  /\ \E f \in Range(ix.files) \ Range(ix.result.files) :
       \A g \in Range(ix.result.files) : g.modified > f.modified

\* the lines of the file readLineRange read
LinesRead == Split(ix.content.str, {"\n"})

\* what C25 says of a call that read a file of totalLines lines
RangeRead(totalLines) ==
  IF ix.startLine > ix.endLine \/ ix.startLine > totalLines
  THEN ix.result.raised /\ ix.result.error = "Invalid line range"
  ELSE /\ ~ix.result.raised
       /\ ix.result.totalLines = totalLines
       /\ ix.result.startLine = Max(ix.startLine, 1)
       /\ ix.result.endLine = Min(ix.endLine, totalLines)
       /\ ix.result.lines = SubSeq(LinesRead, Max(ix.startLine, 1), Min(ix.endLine, totalLines))

\* C25: readLineRange(path, start, end) fails with a range error when
\* start > end or start is beyond the last line, and otherwise returns
\* lines max(start, 1)..min(end, totalLines) and totalLines.
C25_RangeClampedOrRejected ==
  (ix.op = "readLineRange" /\ ix.content # NoFile) => RangeRead(Len(LinesRead))

\* the same for the calls whose end is line 1 or later
RangeClampedWhenEndPositive ==
  (ix.op = "readLineRange" /\ ix.content # NoFile /\ ix.endLine >= 1)
    => RangeRead(Len(LinesRead))

\* a range that ends before line 1 is rejected
RangeBeforeFileRejected ==
  (ix.op = "readLineRange" /\ ix.content # NoFile /\ ix.endLine < 1)
    => ix.result.raised /\ ix.result.error = "Invalid line range"

\* the results whose file could be read, and what was read
Readable == {i \in DOMAIN ix.searchResults : ix.contents[i] # NoFile}

\* the threshold in force: the configured one, 500 when none is configured
ThresholdInForce ==
  IF IsNum(ix.smallFileThreshold) /\ ix.smallFileThreshold.num > 0
  THEN ix.smallFileThreshold.num ELSE 500

\* where the lines of a text start: at its first position and after
\* every line end
LineStarts(text) == {1} \cup {i + 1 : i \in {j \in DOMAIN text : text[j] = "\n"}}

\* the i-th result that could be read
NthReadable(i) ==
  CHOOSE k \in Readable : Cardinality({j \in Readable : j <= k}) = i

\* C26: loadFilesFromSearchResults marks a result loadedCompletely with
\* the complete content exactly when the file has at most
\* smallFileThreshold lines; a larger file is marked not loaded completely
\* and comes with the snippets of the search and the read_lines guidance,
\* without its content.
C26_CompleteIffSmall ==
  ix.op = "loadFilesFromSearchResults"
    => /\ Len(ix.result.files) = Cardinality(Readable)
       /\ \A i \in DOMAIN ix.result.files :
            LET entry == ix.result.files[i]
                found == ix.searchResults[NthReadable(i)]
                text  == ix.contents[NthReadable(i)].str
                small == Cardinality(LineStarts(text)) <= ThresholdInForce
            IN /\ entry.relativePath = found.relativePath
               /\ entry.loadedCompletely <=> small
               /\ small => entry.content = text
               /\ ~small => /\ "content" \notin DOMAIN entry
                            /\ entry.matches = found.matches
                            /\ Includes(entry.message, <<"u", "s", "e", " ", "<", "r", "e", "a", "d", "_", "l", "i", "n", "e", "s", ">">>)

\* with no threshold configured, a file of 500 lines is loaded completely
\* and a file of 501 lines is not
C26_Witness ==
  /\ ix.op = "loadFilesFromSearchResults"
  /\ ix.smallFileThreshold = undefined
  /\ Len(ix.result.files) = 2
  /\ ix.result.files[1].lineCount = 501
  /\ ~ix.result.files[1].loadedCompletely
  /\ ix.result.files[2].lineCount = 500
  /\ ix.result.files[2].loadedCompletely

(* ------------------------------------------------------------------ *)
(* Properties of the model client                                        *)
(* ------------------------------------------------------------------ *)

\* C27: a request that fails because the connection was refused, or with
\* HTTP 400, is not retried: the attempt that failed so is the last one, and
\* when it is the first the request was attempted exactly once.
C27_RefusedOrBadRequestNotRetried ==
  \A i \in DOMAIN rq.errors :
    rq.errors[i] \in {Refused, BadRequest}
      => /\ rq.pc = "done"
         /\ rq.outcome = "thrown"
         /\ rq.sent = i

\* a request that fails with HTTP 400 is not retried
BadRequestNotRetried ==
  \A i \in DOMAIN rq.errors :
    rq.errors[i] = BadRequest
      => /\ rq.pc = "done"
         /\ rq.outcome = "thrown"
         /\ rq.sent = i

\* a refused connection is retried as any other error is: the call ends
\* after maxRetries attempts
RefusedRetried ==
  (rq.outcome = "thrown" /\ \A i \in DOMAIN rq.errors : rq.errors[i] = Refused)
    => rq.sent = maxRetries /\ rq.thrown.message = "Cannot connect to LMStudio"

\* the errors the specification has retried: all but a refused connection
\* and HTTP 400
Retryable == RequestErrors \ {Refused, BadRequest}

\* the call threw after requests that were all rejected with retryable errors
Exhausted ==
  /\ rq.outcome = "thrown"
  /\ \A i \in DOMAIN rq.errors : rq.errors[i] \in Retryable

\* the message of the error complete raises for the error a request was
\* rejected with
RaisedFor(error) ==
  CASE error.status # 0 -> "LMStudio API error"
    [] error.code = "ECONNREFUSED" -> "Cannot connect to LMStudio"
    [] error.code \in {"ETIMEDOUT", "ECONNRESET"} -> "Connection to LMStudio was interrupted"
    [] OTHER -> error.message

\* at most three attempts, a wait after every failed attempt that is
\* followed by another, and the last error raised in the end
AttemptsBounded ==
  /\ rq.sent <= 3
  /\ Len(rq.waits) = IF rq.pc = "sleep" THEN rq.sent ELSE Max(rq.sent - 1, 0)
  /\ Exhausted => /\ rq.sent = 3
                  /\ rq.thrown.message = RaisedFor(rq.errors[Len(rq.errors)])

Given(argument) == argument # undefined /\ argument # null

\* the threshold of the call in percent, 0.7 when none was passed
ThresholdOf == IF sc.threshold = undefined THEN 70 ELSE sc.threshold.num

\* C: the maxTokens override when given, otherwise the context window
CeilingOf == IF Given(sc.maxTokens) THEN sc.maxTokens.num ELSE contextWindow

\* the live re-count of the full window
Recount == countMessagesTokens(history.full, encoding)

ZeroReadingRecounted ==
  sc.done /\ ~Given(sc.currentTokens) /\ sc.lastUsage = [promptTokens |-> 0]
    => (sc.result <=> Recount > FloorProduct(CeilingOf, ThresholdOf))

(* ------------------------------------------------------------------ *)
(* Properties of formatFileContents                                      *)
(* ------------------------------------------------------------------ *)

\* a candidate file as it appears whole in the message
BlockOf(file) == fileHeader(file.path) \o file.content \o BlankLine

\* the message with the first k candidates whole, before it is trimmed
RECURSIVE WholeFiles(_)
WholeFiles(k) ==
  IF k = 0 THEN RelevantFilesTag \o BlankLine
  ELSE WholeFiles(k - 1) \o BlockOf(ff.files[k])

\* tokens of the budget the first k candidates use when included whole
RECURSIVE UsedBy(_)
UsedBy(k) ==
  IF k = 0 THEN countTokens(RelevantFilesTag \o BlankLine, encoding)
  ELSE UsedBy(k - 1) + countTokens(BlockOf(ff.files[k]), encoding)

\* the number of leading candidates that fit the budget whole
FitCount ==
  CHOOSE k \in 0..Len(ff.files) :
    /\ \A i \in 1..k : UsedBy(i) <= ff.tokenBudget
    /\ k < Len(ff.files) => UsedBy(k + 1) > ff.tokenBudget

\* what is left of the budget for the content of candidate k + 1
RemainingFor(k) ==
  ff.tokenBudget - UsedBy(k)
    - countTokens(fileHeader(ff.files[k + 1].path) \o BlankLine, encoding)

\* the message is the first k candidates whole and then candidate k + 1 cut
\* short: a part of its beginning and the truncation marker
EndsTruncated(k) ==
  LET base == WholeFiles(k) \o fileHeader(ff.files[k + 1].path)
      kept == Len(ff.result) - Len(base) - Len(TruncationMarker)
  IN /\ kept \in 0..(Len(ff.files[k + 1].content) - 1)
     /\ ff.result = base \o SubSeq(ff.files[k + 1].content, 1, kept) \o TruncationMarker

\* the message is the first k candidates whole and nothing else
EndsWhole(k) == ff.result = Trim(WholeFiles(k))

\* C30: the files appear in candidate order, whole while they fit the
\* budget; at the first candidate that does not fit, a truncated version of it
\* is appended and no later file is included.
C30_WholeThenOneTruncated ==
  ff.done /\ ff.files # <<>> =>
    IF FitCount = Len(ff.files) THEN EndsWhole(FitCount) ELSE EndsTruncated(FitCount)

\* C30 amended: the truncated version is appended only when more than 100
\* tokens of the budget are left for the file's content; otherwise the
\* message ends with the last whole file.
C30_WholeThenTruncatedIfRoom ==
  ff.done /\ ff.files # <<>> =>
    IF FitCount = Len(ff.files) THEN EndsWhole(FitCount)
    ELSE IF RemainingFor(FitCount) > 100 THEN EndsTruncated(FitCount)
    ELSE EndsWhole(FitCount)

\* a whole file followed by a truncated one
C30_Witness ==
  /\ ff.done
  /\ Len(ff.files) = 2
  /\ FitCount = 1
  /\ RemainingFor(1) > 100
  /\ EndsTruncated(1)

\* a file that does not fit, with 100 tokens or less left, is left out whole
NoRoomLeftOut ==
  /\ ff.done
  /\ Len(ff.files) = 2
  /\ FitCount = 1
  /\ RemainingFor(1) \in 1..100
  /\ EndsWhole(1)

(* ------------------------------------------------------------------ *)
(* Properties of the content search                                      *)
(* ------------------------------------------------------------------ *)

\* extractFunctionContext was called
Extracted == ix.op = "extractFunctionContext"

\* opening braces less closing braces on the lines from a to b (from 0) of
\* the file extractFunctionContext was given
Balance(a, b) ==
  LET positions == UNION { {<<i, j>> : j \in 1..Len(ix.args.lines[i + 1])} : i \in a..b }
      braces(c) == Cardinality({ pos \in positions :
                                   ix.args.lines[pos[1] + 1][pos[2]] = c })
  IN braces("{") - braces("}")

\* the number of the last line of that file, from 0
LastLine == Len(ix.args.lines) - 1

\* line i starts the block of the hit: a brace opened on it or after it is
\* still open at the hit, or the line reads like a declaration
BlockStartAt(i) ==
  \/ Balance(i, ix.args.lineNum) > 0
  \/ startsDeclaration(ix.args.lines[i + 1])
  \/ looksLikeSignature(ix.args.lines[i + 1])

\* the backward scan finds no block start within the cap
NoBlockStart ==
  \A i \in Max(0, ix.args.lineNum - ix.args.maxLines)..ix.args.lineNum : ~BlockStartAt(i)

FallbackStartsHalfCapBefore ==
  Extracted /\ NoBlockStart =>
    /\ ix.result.startLine = Max(0, ix.args.lineNum - ix.args.maxLines \div 2)
    /\ ix.result.endLine <= Min(LastLine, ix.result.startLine + ix.args.maxLines - 1)

\* a fallback window of a whole cap that ends before hit + cap/2
FallbackEndsShort ==
  /\ Extracted
  /\ NoBlockStart
  /\ ix.args.lineNum - ix.args.maxLines \div 2 >= 0
  /\ ix.result.endLine = ix.result.startLine + ix.args.maxLines - 1
  /\ ix.result.endLine < Min(LastLine, ix.args.lineNum + ix.args.maxLines \div 2)

\* the last line the forward scan may reach: the cap, or the end of the file
CapEnd == Min(LastLine, ix.result.startLine + ix.args.maxLines - 1)

\* line i closes the block: it is after the hit, the balance from the block
\* start is zero on it and it has a closing brace
BlockEndAt(i) ==
  /\ i > ix.args.lineNum
  /\ Balance(ix.result.startLine, i) = 0
  /\ Includes(ix.args.lines[i + 1], <<"}">>)

FallbackEndsAtBrace ==
  /\ Extracted
  /\ NoBlockStart
  /\ BlockEndAt(ix.result.endLine)
  /\ ix.result.endLine < CapEnd

\* C33: the block ends at the first line after the hit at which the balance
\* from the block start is zero and that has a closing brace; if there is no
\* such line within the cap it ends at the cap (at the last line of a file
\* that ends before), so it never spans more than cap lines.
C33_EndsAtBalancedBrace ==
  Extracted =>
    /\ IF \E i \in ix.result.startLine..CapEnd : BlockEndAt(i)
       THEN /\ BlockEndAt(ix.result.endLine)
            /\ \A i \in ix.result.startLine..(ix.result.endLine - 1) : ~BlockEndAt(i)
       ELSE ix.result.endLine = CapEnd
    /\ ix.result.endLine - ix.result.startLine + 1 <= ix.args.maxLines

\* a block found by the backward scan that ends at its closing brace before
\* the cap, after a line with a closing brace that does not balance
C33_Witness ==
  /\ Extracted
  /\ ~NoBlockStart
  /\ ix.result.startLine < ix.args.lineNum
  /\ BlockEndAt(ix.result.endLine)
  /\ ix.result.endLine < CapEnd

\* a block that goes past a closing brace after the hit, the balance not
\* being zero there
UnbalancedBracePassed ==
  /\ Extracted
  /\ \E i \in (ix.args.lineNum + 1)..(ix.result.endLine - 1) :
       Includes(ix.args.lines[i + 1], <<"}">>)

\* the number of lines of the file a result of searchFileContents is about
TotalLinesOf(relativePath) ==
  LET i == CHOOSE j \in 1..Len(ix.files) : ix.files[j].relativePath = relativePath
  IN lineCountOf(ix.args.contents[i].str)

\* the snippet range of a match has the hit line in it and is within the file
HoldsHit(match, totalLines) ==
  /\ 1 <= match.startLine
  /\ match.startLine <= match.lineNumber
  /\ match.lineNumber <= match.endLine
  /\ match.endLine <= totalLines

\* C35: for every match of searchFileContents in any context mode,
\* 1 <= startLine <= lineNumber <= endLine <= total lines of the file.
C35_SnippetHoldsHit ==
  ix.op = "searchFileContents" =>
    \A f \in 1..Len(ix.result.files) :
      \A m \in 1..Len(ix.result.files[f].matches) :
        HoldsHit(ix.result.files[f].matches[m],
                 TotalLinesOf(ix.result.files[f].relativePath))

\* in the simple and the extended mode the range has the hit line in it
SnippetHoldsHitOutsideFunctionMode ==
  ix.op = "searchFileContents" /\ ix.args.contextMode # "function" =>
    \A f \in 1..Len(ix.result.files) :
      \A m \in 1..Len(ix.result.files[f].matches) :
        HoldsHit(ix.result.files[f].matches[m],
                 TotalLinesOf(ix.result.files[f].relativePath))

\* in the function mode the range is within the file and starts at the hit
\* line or before, and ends at the line before the hit at the earliest
FunctionSnippetWithinFile ==
  ix.op = "searchFileContents" /\ ix.args.contextMode = "function" =>
    \A f \in 1..Len(ix.result.files) :
      \A m \in 1..Len(ix.result.files[f].matches) :
        LET match == ix.result.files[f].matches[m]
        IN /\ 1 <= match.startLine
           /\ match.startLine <= match.lineNumber
           /\ match.lineNumber - 1 <= match.endLine
           /\ match.startLine <= match.endLine
           /\ match.endLine <= TotalLinesOf(ix.result.files[f].relativePath)

(* ------------------------------------------------------------------ *)
(* Properties of the index maintenance                                   *)
(* ------------------------------------------------------------------ *)

\* the entries of the path in the list
entriesOf(files, file) == SelectSeq(files, LAMBDA f : f.path = file)

\* no two entries of the list have the same path
OnePerPath(files) ==
  \A i \in 1..Len(files) : \A j \in 1..Len(files) :
    files[i].path = files[j].path => i = j

\* during a call of buildIndex and after it, the list holds entries of files
\* the scan of that call found and the loop has parsed, in the order of the
\* scan, and nothing else
BuiltFromScan ==
  ix.op = "buildIndex"
    => LET parsed_ == SubSeq(ix.args.files, 1, ix.args.i)
           paths   == [k \in 1..Len(ix.files) |-> ix.files[k].path]
       IN paths = SelectSeq(parsed_, LAMBDA file : file \in Range(paths))

\* the path of the call of updateIndex that the step makes
updatedPath == resolve(ix'.args.filePath)

\* the step is a call of updateIndex: the only step that leaves the disk as
\* it is and ends with updateIndex as the last call
UpdateStep == ix'.disk = ix.disk /\ ix'.op = "updateIndex"

\* updateIndex leaves the entries of the other paths as they were, in their
\* order
OthersUntouched ==
  withoutPath(ix'.files, updatedPath) = withoutPath(ix.files, updatedPath)

UpdateRemovedEntry ==
  /\ ix.op = "updateIndex"
  /\ ix.args.had
  /\ entriesOf(ix.files, resolve(ix.args.filePath)) = <<>>
  /\ Len(ix.files) = 2

\* a build has replaced a list of three entries by an empty one
BuildEmptiedList ==
  /\ ix.op = "buildIndex"
  /\ ix.result = [indexed |-> 0]
  /\ ix.args.files # <<>>

(* ------------------------------------------------------------------ *)
(* Properties of the ledger between queries                              *)
(* ------------------------------------------------------------------ *)

\* the check with default arguments was made right after a compression that
\* succeeded
CheckedAfterCompression == cmLast.outcome = "ok" /\ sc.done

\* C36: after a compression succeeds, a shouldCompress check made with default
\* arguments immediately afterwards, with no new message appended and no new
\* model call made, returns false.
C36_ActiveAfterCompression == CheckedAfterCompression => ~sc.result

\* what the check after a compression goes by: the last usage reading when it
\* is not 0, whatever was compressed, and otherwise the re-count of the
\* messages that were kept
CheckAfterCompressionByReading ==
  CheckedAfterCompression
    => LET T == IF sc.lastUsage # null /\ sc.lastUsage.promptTokens # 0
                THEN sc.lastUsage.promptTokens ELSE Recount
       IN sc.result <=> T > FloorProduct(contextWindow, 70)

\* the check after a compression says true on a usage reading, the messages
\* that were kept being below the threshold
StillDueOnReading ==
  /\ CheckedAfterCompression
  /\ sc.result
  /\ sc.lastUsage # null
  /\ Recount <= FloorProduct(contextWindow, 70)

\* the check after a compression says true on the re-count: the messages that
\* were kept are above the threshold
StillDueOnKeptMessages ==
  /\ CheckedAfterCompression
  /\ sc.result
  /\ sc.lastUsage = null

\* the check after a compression says false
ActiveAgain == CheckedAfterCompression /\ ~sc.result

(* ------------------------------------------------------------------ *)
(* Properties of the degrade ladder: termination                         *)
(* ------------------------------------------------------------------ *)

\* buildPrompt is in its safety check
InLadder == pb.pc \in {"reduce", "files"}

\* a step of the ladder that removes one message and measures less
RemovesOne ==
  /\ Len(pb'.messages) = Len(pb.messages) - 1
  /\ pb'.actualTokens = countMessagesTokens(pb'.messages, encoding)
  /\ pb'.actualTokens < pb.actualTokens

\* a step of the ladder that leaves the list and goes on to the next rung or
\* to the return
Exits ==
  /\ pb'.messages = pb.messages
  /\ pb'.actualTokens = pb.actualTokens
  /\ \/ pb.pc = "reduce" /\ pb'.pc = "files"
     \/ pb.pc = "files" /\ pb'.pc = "return"

\* system messages of the assembled list that the returned one does not hold
SystemRemoved ==
  {j \in 1..Len(pb.assembled) :
     /\ pb.assembled[j].role = "system"
     /\ \A k \in 1..Len(pb.messages) : pb.messages[k] # pb.assembled[j]}

\* what the ladder has removed so far: conversation messages, and at most one
\* system message, which includes 'RELEVANT FILES:'
RemovedWithinBound ==
  pb.pc # "idle"
    => /\ IsSubsequence(pb.messages, pb.assembled)
       /\ pb.messages[Len(pb.messages)] = pb.assembled[Len(pb.assembled)]
       /\ systemCount(pb.assembled) - systemCount(pb.messages) = Cardinality(SystemRemoved)
       /\ Cardinality(SystemRemoved) <= 1
       /\ \A j \in SystemRemoved : Includes(pb.assembled[j].content, RelevantFilesTag)
       /\ Len(pb.assembled) - Len(pb.messages)
            <= Cardinality(Conversation(pb.assembled)) + 1

\* C37: the degrade ladder of buildPrompt always terminates: every iteration
\* of the drop loop either removes one message, strictly decreasing the
\* measured token count, or exits, and the ladder removes at most the
\* conversation messages plus the single relevant-files message.
C37_LadderTerminates ==
  /\ InLadder ~> (pb.pc = "returned")
  /\ [][ InLadder => (RemovesOne \/ Exits) ]_vars
  /\ []RemovedWithinBound

\* a prompt came back from which the ladder removed every conversation
\* message and the relevant-files message: the most it removes
C37_Witness ==
  /\ pb.pc = "returned"
  /\ Conversation(pb.assembled) # {}
  /\ Len(pb.assembled) - Len(pb.messages) = Cardinality(Conversation(pb.assembled)) + 1

\* the ladder gave up: the prompt came back over budget with nothing left
\* that it removes
LadderGaveUp ==
  /\ pb.pc = "returned"
  /\ pb.actualTokens > pb.availableTokens
  /\ Conversation(pb.messages) = {}
  /\ filesMessage(pb.messages) = 0

(* ------------------------------------------------------------------ *)
(* Properties of cleanPath                                               *)
(* ------------------------------------------------------------------ *)

\* C38: cleanPath is idempotent: for every raw path p,
\* cleanPath(cleanPath(p)) equals cleanPath(p).
C38_CleanPathIdempotent == cleaned.calls = 2 => cleaned.result = cleaned.once

\* what cleanPath returns is a part of the path in one piece, without white
\* space at its ends
CleanedIsTrimmedPart ==
  cleaned.calls >= 1
    => /\ \E i \in 1..(Len(cleaned.path) + 1) :
            cleaned.once = SubSeq(cleaned.path, i, i + Len(cleaned.once) - 1)
       /\ Trim(cleaned.once) = cleaned.once

\* one application is enough when the markers are nested as cleanPath takes
\* them off: the --- markers outside the quotes
DashesOutsideQuotes ==
  /\ cleaned.calls = 2
  /\ cleaned.path = <<"-", "-", "-", "\"", "a", ".", "j", "s", "\"">>
  /\ cleaned.once = <<"a", ".", "j", "s">>
  /\ cleaned.result = <<"a", ".", "j", "s">>

\* a --- marker inside the quotes is left by the first application and taken
\* off by the second
DashesInsideQuotes ==
  /\ cleaned.calls = 2
  /\ cleaned.path = <<"\"", "-", "-", "-", "a", ".", "j", "s", "\"">>
  /\ cleaned.once = <<"-", "-", "-", "a", ".", "j", "s">>
  /\ cleaned.result = <<"a", ".", "j", "s">>

(* ------------------------------------------------------------------ *)
(* Properties of the streaming completion                                *)
(* ------------------------------------------------------------------ *)

\* completeWithStreaming has returned
StreamReturned == rq.pc = "done" /\ rq.outcome = "returned"

\* C39: when a streaming completion fails part-way through and is retried,
\* the content finally returned is exactly the text streamed by the
\* successful attempt: no text received during a failed attempt is included.
C39_ContentOfSuccessfulAttempt == StreamReturned => rq.content = rq.streamed

\* the content returned is the text of every stream of the call, those that
\* failed first, and the token count is that of all of them
ContentOfEveryAttempt ==
  StreamReturned
    => /\ rq.content = rq.before \o rq.streamed
       /\ rq.tokenCount = Len(rq.before) + Len(rq.streamed)

\* a call of which no stream failed after a delta returns the text of its stream
ContentWithoutPartialFailure ==
  (StreamReturned /\ rq.before = <<>>) => rq.content = rq.streamed

\* a stream failed after "a", the next attempt streamed "ab": "aab" came back
PartialTextKept ==
  /\ StreamReturned
  /\ rq.attempt = 1
  /\ rq.before = <<"a">>
  /\ rq.streamed = <<"a", "b">>
  /\ rq.content = <<"a", "a", "b">>

\* a retry after a post that was rejected returned the text of its stream
RetriedWithoutText ==
  /\ StreamReturned
  /\ rq.attempt = 2
  /\ rq.before = <<>>
  /\ rq.content = <<"a", "b">>

====
